---- MODULE Spec2Model ----
(***************************************************************************)
(* A model of the pscic expression engine: the pyparsing grammar of        *)
(* psciclib/parseexpr.py, the node builders (parse actions) and the        *)
(* evaluation of psciclib/operators/__init__.py, and the roman numeral     *)
(* table of psciclib/result.py.                                            *)
(*                                                                         *)
(* The input line is a sequence of lexemes.  Nodes of the expression tree  *)
(* are records tagged by the field k; an operator string that pyparsing    *)
(* leaves in a token list is the record Raw(s).                            *)
(***************************************************************************)
EXTENDS Integers, Sequences, FiniteSets, TLC

VARIABLES pc, input, tree, value, shape, output, answers, controls, simplified, shown

vars == <<pc, input, tree, value, shape, output, answers, controls, simplified, shown>>

\* the output widget and the cache of the Result it shows
display == <<controls, simplified, shown>>

(***************************************************************************)
(* Bounds of the model.                                                    *)
(***************************************************************************)
\* longest line typed freely over the general alphabet
MaxLen == 4
\* most operands of a chain of infix operators of one level
MaxChain == 5
\* most prefix signs typed in front of one operand
MaxSignChain == 5
\* most signs typed in a line of exponents
MaxExpSigns == 3
\* most cells typed in a matrix literal
MaxCells == 4
\* most arguments typed in a function call
MaxArgs == 4
\* most solutions the solver returns for an equation
MaxSolutions == 2
\* most digits typed on either side of the point of a prefixed literal
MaxDigits == 2
\* the integers -RomanProbe..RomanProbe are rendered as roman numerals
RomanProbe == 5010
\* largest magnitude the Numeric Engine is followed to; beyond it a value
\* is only known to be "Big"
MaxMag == 30000
\* the operations applied to a value of the Quantity interface
MaxOps == 2
\* the digits asked for go up to MaxPrecision
MaxPrecision == 2
\* the calls of update_output on one result
MaxShows == 2
\* the texts handed to identifier have up to MaxWord characters
MaxWord == 4

(***************************************************************************)
(* Lexemes.                                                                *)
(***************************************************************************)
UMINUS == "U+2212"
MIDDOT == "U+00B7"
DIVSIGN == "U+00F7"

signop == {"+", "-", UMINUS}
addop == {"+", "-", UMINUS}
multop == {MIDDOT, "*", DIVSIGN, "/", "//"}
expop == {"^", "**"}
factop == {"!"}
keyword == {"to"}

IntLexemes == {"0", "1", "2", "3", "4", "7", "8", "100"}
process_int(lex) ==
    [k |-> "Integer",
     v |-> CASE lex = "0" -> 0 [] lex = "1" -> 1 [] lex = "2" -> 2
             [] lex = "3" -> 3 [] lex = "4" -> 4 [] lex = "7" -> 7
             [] lex = "8" -> 8 [] lex = "100" -> 100]

\* names the constant table knows, with their canonical names
ConstantNames == {"e", "i", "pi", "U+03C0", "x"}
CanonicalConstant(name) == IF name = "pi" THEN "U+03C0" ELSE name
\* names the unit registry resolves
UnitNames == {"m", "cm", "km", "h"}
\* ArgCap: what a function parameter accepts
ArgCap(scalar, matrix, unit, optional) ==
    [scalar |-> scalar, matrix |-> matrix, unit |-> unit, optional |-> optional]

\* FunctionList.functions: every name, canonical or alias, of the entries of
\* FunctionList._functions looked at, with its entry (the canonical name of
\* sqrt, the radical sign, is no identifier and is never looked up)
FunctionNames == {"sin", "cosec", "csc", "log", "sqrt", "circle_area", "diff"}
functions(name) ==
    CASE name = "sin" ->
            [canonical_name |-> "sin", fn |-> "sympy.sin",
             args |-> <<ArgCap(TRUE, FALSE, FALSE, FALSE)>>]
      [] name \in {"cosec", "csc"} ->
            [canonical_name |-> "cosec", fn |-> "sympy.csc",
             args |-> <<ArgCap(TRUE, FALSE, FALSE, FALSE)>>]
      [] name = "log" ->
            [canonical_name |-> "log", fn |-> "sympy.log",
             args |-> <<ArgCap(TRUE, FALSE, FALSE, FALSE),
                        ArgCap(TRUE, FALSE, FALSE, TRUE)>>]
      [] name = "sqrt" ->
            [canonical_name |-> "U+221A", fn |-> "sqrt",
             args |-> <<ArgCap(TRUE, TRUE, TRUE, FALSE)>>]
      [] name = "circle_area" ->
            [canonical_name |-> "circle_area", fn |-> "circle_area",
             args |-> <<ArgCap(TRUE, FALSE, TRUE, FALSE)>>]
      [] name = "diff" ->
            [canonical_name |-> "diff", fn |-> "sympy.diff",
             args |-> <<ArgCap(TRUE, FALSE, TRUE, FALSE),
                        ArgCap(TRUE, FALSE, FALSE, TRUE),
                        ArgCap(TRUE, FALSE, FALSE, TRUE)>>]

\* FunctionList.init: nargs_min counts the parameters that are not optional
\* (an entry with a mandatory parameter after an optional one is refused
\* when the module is loaded), nargs_max counts all
nargs_min(name) ==
    Cardinality({i \in 1..Len(functions(name).args) : ~functions(name).args[i].optional})
nargs_max(name) == Len(functions(name).args)

\* identifier = currency_symbols | ( NotAny(keyword) + Regex(letter \w*) )
\* on whole lexemes, none of which begins with a keyword (`foo` is neither
\* a constant, a unit nor a function)
IdentifierLexemes == ConstantNames \cup UnitNames \cup FunctionNames \cup {"foo"}
identifier(lex) == lex \in IdentifierLexemes /\ lex \notin keyword

(***************************************************************************)
(* Nodes.                                                                  *)
(***************************************************************************)
Nil == [k |-> "Nil"]
Raw(s) == [k |-> "Raw", v |-> s]
Constant(name) == [k |-> "Constant", name |-> name]
Unit(name) == [k |-> "Unit", name |-> name]
Expression(e) == [k |-> "Expression", expr |-> e]
Conversion(e, u) == [k |-> "Conversion", expr |-> e, to_unit |-> u]
Equality(l, r) == [k |-> "Equality", lhs |-> l, rhs |-> r]
Plus(l, r) == [k |-> "Plus", lhs |-> l, rhs |-> r]
Minus(l, r) == [k |-> "Minus", lhs |-> l, rhs |-> r]
Times(l, r) == [k |-> "Times", lhs |-> l, rhs |-> r]
Divide(l, r) == [k |-> "Divide", lhs |-> l, rhs |-> r]
IntDivide(l, r) == [k |-> "IntDivide", lhs |-> l, rhs |-> r]
Exponent(l, r) == [k |-> "Exponent", lhs |-> l, rhs |-> r]
Factorial(l) == [k |-> "Factorial", lhs |-> l]
MinusSign(r) == [k |-> "MinusSign", rhs |-> r]
PlusSign(r) == [k |-> "PlusSign", rhs |-> r]
Function(fn_s, fn, args, argspec) ==
    [k |-> "Function", fn_s |-> fn_s, fn |-> fn, args |-> args, argspec |-> argspec]
Matrix(rows, cols, data) == [k |-> "Matrix", rows |-> rows, cols |-> cols, data |-> data]

(***************************************************************************)
(* Outcomes of a parser element at a position: a match with its token and  *)
(* the position after it, a ParseException (the caller may try another     *)
(* alternative), or an exception raised by a parse action, which leaves    *)
(* the whole parse; args are the arguments the exception was made with.    *)
(***************************************************************************)
Ok(n, p) == [st |-> "ok", node |-> n, pos |-> p, err |-> "none", args |-> <<>>]
Fail == [st |-> "fail", node |-> Nil, pos |-> 0, err |-> "ParseException", args |-> <<>>]
RaiseWith(e, a) == [st |-> "raise", node |-> Nil, pos |-> 0, err |-> e, args |-> a]
Raise(e) == RaiseWith(e, <<>>)

Tok(toks, p) == IF p >= 1 /\ p <= Len(toks) THEN toks[p] ELSE "EOF"


(***************************************************************************)
(* Parse actions (node builders).                                          *)
(***************************************************************************)

\* Unit.process: the unit registry resolves the name or UnknownUnitError
Unit_process(name) ==
    IF name \in UnitNames THEN Ok(Unit(name), 0)
    ELSE RaiseWith("UnknownUnitError", <<name>>)

\* Constant.process: constant table first, then the unit registry
Constant_process(name) ==
    IF name \in ConstantNames
    THEN Ok(Constant(CanonicalConstant(name)), 0)
    ELSE IF Unit_process(name).st = "ok"
         THEN Unit_process(name)
         ELSE RaiseWith("UnknownConstantError", <<name>>)

\* Expression.process
Expression_process(toks) ==
    IF Len(toks) # 1 THEN Raise("ValueError") ELSE Ok(Expression(toks[1]), 0)

\* the table `symbols` of InfixLeftSymbol.process
symb_set == {"+", "-", "*", MIDDOT, "/", DIVSIGN, "//"}
symbols(op, lhs, rhs) ==
    CASE op = "+" -> Plus(lhs, rhs)
      [] op = "-" -> Minus(lhs, rhs)
      [] op = "*" -> Times(lhs, rhs)
      [] op = MIDDOT -> Times(lhs, rhs)
      [] op = "/" -> Divide(lhs, rhs)
      [] op = DIVSIGN -> Divide(lhs, rhs)
      [] op = "//" -> IntDivide(lhs, rhs)

IsOp(t, S) == t.k = "Raw" /\ t.v \in S

\* InfixLeftSymbol.process: l is the token list in source order; the code
\* reverses it and pops from the end, which is taking from the front here.
RECURSIVE InfixLeftSymbol_process(_)
InfixLeftSymbol_process(l) ==
    IF Len(l) <= 1
    THEN IF Len(l) = 1 THEN Ok(l[1], 0) ELSE Ok(Nil, 0)
    ELSE LET lhs == l[1]
             op == l[2]
         IN  IF IsOp(op, symb_set)
             THEN \* rhs = l.pop(); IndexError when nothing is left
                  IF Len(l) < 3
                  THEN Raise("IndexError")
                  ELSE InfixLeftSymbol_process(
                           <<symbols(op.v, lhs, l[3])>> \o SubSeq(l, 4, Len(l)))
             ELSE \* multiplication operator was omitted
                  InfixLeftSymbol_process(
                      <<symbols("*", lhs, op)>> \o SubSeq(l, 3, Len(l)))

\* PostfixSymbol.process that stops after the first mark
PostfixSymbol_process_once(l) ==
    IF Len(l) <= 1
    THEN IF Len(l) = 1 THEN Ok(l[1], 0) ELSE Ok(Nil, 0)
    ELSE IF IsOp(l[2], {"!"}) THEN Ok(Factorial(l[1]), 0) ELSE Raise("ValueError")

\* PostfixSymbol.process
RECURSIVE PostfixSymbol_process(_)
PostfixSymbol_process(l) ==
    IF Len(l) <= 1
    THEN IF Len(l) = 1 THEN Ok(l[1], 0) ELSE Ok(Nil, 0)
    ELSE IF IsOp(l[2], {"!"})
         THEN PostfixSymbol_process(<<Factorial(l[1])>> \o SubSeq(l, 3, Len(l)))
         ELSE Raise("ValueError")

\* PrefixSymbol.process: the else branch formats the undefined name `sign`
PrefixSymbol_process(op, rhs) ==
    IF IsOp(op, {"+"}) THEN Ok(PlusSign(rhs), 0)
    ELSE IF IsOp(op, {"-"}) THEN Ok(MinusSign(rhs), 0)
    ELSE Raise("NameError")

\* the loop `while len(signs) > 1` of Exponent.process: signs ends with the
\* operand; the last two entries are folded into one node until one is left
RECURSIVE FoldSigns(_)
FoldSigns(signs) ==
    IF Len(signs) <= 1
    THEN Ok(signs[1], 0)
    ELSE LET b == signs[Len(signs)]
             a == signs[Len(signs) - 1]
             r == PrefixSymbol_process(a, b)
         IN  IF r.st # "ok" THEN r
             ELSE FoldSigns(SubSeq(signs, 1, Len(signs) - 2) \o <<r.node>>)

\* number of leading entries of l, from index i on, that are "+" or "-"
RECURSIVE CountSigns(_, _)
CountSigns(l, i) ==
    IF i <= Len(l) /\ IsOp(l[i], {"+", "-"}) THEN 1 + CountSigns(l, i + 1) ELSE 0

\* Exponent.process: l = [lhs, expop, sign..., rhs]
Exponent_process(l) ==
    LET lhs == l[1]
        n == CountSigns(l, 3)
        \* toks[0] after the n pops at index 2
        rest == SubSeq(l, 1, 2) \o SubSeq(l, 3 + n, Len(l))
    IN  IF n > 0
        THEN \* signs.append(toks[0].pop()): the last entry of what is left
             LET signs == SubSeq(l, 3, 2 + n) \o <<rest[Len(rest)]>>
                 r == FoldSigns(signs)
             IN  IF r.st # "ok" THEN r ELSE Ok(Exponent(lhs, r.node), 0)
        ELSE Ok(Exponent(lhs, rest[3]), 0)

\* Matrix.process without the comparison of the row lengths
Matrix_process_unchecked(toks) ==
    IF Len(toks) = 0
    THEN Ok(Matrix(0, 0, Nil), 0)
    ELSE IF Len(toks[1]) = 0
    THEN Raise("IndexError")
    ELSE Ok(Matrix(Len(toks[1]), Len(toks[1][1]), toks[1]), 0)

\* Matrix.process: toks is the one-element list holding the group of rows
Matrix_process(toks) ==
    IF Len(toks) = 0
    THEN Ok(Matrix(0, 0, Nil), 0)
    ELSE LET rows == Len(toks[1])
         IN  IF rows = 0
             THEN Raise("IndexError")   \* toks[0][0] of an empty group
             ELSE LET cols == Len(toks[1][1])
                  IN  IF \E i \in 1..rows : Len(toks[1][i]) # cols
                      THEN Raise("VariableLengthRowsError")
                      ELSE Ok(Matrix(rows, cols, toks[1]), 0)

\* Function.process: toks[0] = [name, arg, ...]
Function_process(name, args) ==
    IF name \notin FunctionNames
    THEN RaiseWith("UnknownFunctionError", <<name>>)
    ELSE LET fn == functions(name)
             argmin == nargs_min(name)
             argmax == nargs_max(name)
         IN  IF ~(argmin <= Len(args) /\ Len(args) <= argmax)
             THEN RaiseWith("WrongNumberOfArgumentsError",
                            <<name, Len(args), argmin, argmax>>)
             ELSE Ok(Function(fn.canonical_name, fn.fn, args, fn.args), 0)

\* Conversion.process and Equality.process: [lhs, "to" or "=", rhs]
Conversion_process(toks) ==
    IF Len(toks) # 3 THEN Raise("ValueError") ELSE Ok(Conversion(toks[1], toks[3]), 0)
Equality_process(toks) ==
    IF Len(toks) # 3 THEN Raise("ValueError") ELSE Ok(Equality(toks[1], toks[3]), 0)

\* a parse action runs only when actions are on (not inside FollowedBy)
Act(act, r, p) ==
    IF ~act THEN Ok(Nil, p)
    ELSE IF r.st = "ok" THEN Ok(r.node, p) ELSE r


Abs(i) == IF i < 0 THEN -i ELSE i

RECURSIVE IntPow(_, _)
IntPow(b, e) == IF e = 0 THEN 1 ELSE b * IntPow(b, e - 1)

RECURSIVE GCD(_, _)
GCD(a, b) == IF b = 0 THEN Abs(a) ELSE GCD(b, a % b)

\* position after a greedy run of lexemes of S
RECURSIVE SkipRun(_, _, _)
SkipRun(toks, p, S) == IF Tok(toks, p) \in S THEN SkipRun(toks, p + 1, S) ELSE p

(***************************************************************************)
(* Number literals with a prefix.  Inside such a literal the line is read  *)
(* character by character: a lexeme after the prefix is one character.     *)
(***************************************************************************)
\* RomanInt.numerals
numerals == <<"I", "V", "X", "L", "C", "D", "M">>

\* str.upper() on one character of a roman numeral
Upper(c) ==
    CASE c = "i" -> "I" [] c = "v" -> "V" [] c = "x" -> "X" [] c = "l" -> "L"
      [] c = "c" -> "C" [] c = "d" -> "D" [] c = "m" -> "M" [] OTHER -> c
upper(str) == [j \in 1..Len(str) |-> Upper(str[j])]

\* n * c for a one-character string c
Rep(c, n) == [j \in 1..n |-> c]

\* the string the table loop builds first for digit i of a decimal place:
\* (i//5) * five + (i%5) * one
Sloppy(exponent, i) ==
    Rep(numerals[exponent * 2 + 2], i \div 5) \o Rep(numerals[exponent * 2 + 1], i % 5)
\* and for i % 5 = 4: one + (1-i//5)*five + (i//5)*ten
Subtractive(exponent, i) ==
    <<numerals[exponent * 2 + 1]>> \o Rep(numerals[exponent * 2 + 2], 1 - i \div 5)
        \o Rep(numerals[exponent * 2 + 3], i \div 5)

\* RomanInt.table as the set of its items (roman string, value)
table ==
    {<<<<>>, 0>>}
    \cup {<<Sloppy(exponent, i), i * IntPow(10, exponent)>> : exponent \in 0..2, i \in 1..9}
    \cup {<<Subtractive(exponent, i), i * IntPow(10, exponent)>> :
            exponent \in 0..2, i \in {4, 9}}

\* RomanInt.rev_table[val]: the subtractive string overwrites the sloppy one
rev_table(val) ==
    IF val = 0 THEN <<>>
    ELSE LET exponent == IF val >= 100 THEN 2 ELSE IF val >= 10 THEN 1 ELSE 0
             i == val \div IntPow(10, exponent)
         IN  IF i % 5 = 4 THEN Subtractive(exponent, i) ELSE Sloppy(exponent, i)

\* table[rs] for a key rs
Lookup(rs) == (CHOOSE item \in table : item[1] = rs)[2]

\* process_romanint: toks[0] = ["0r", thousands, hundreds, tens, ones]
process_romanint(thousands, hundreds, tens, ones) ==
    IF {upper(hundreds), upper(tens), upper(ones)} \subseteq {item[1] : item \in table}
    THEN Ok([k |-> "Integer",
             v |-> Len(thousands) * 1000 + Lookup(upper(hundreds))
                    + Lookup(upper(tens)) + Lookup(upper(ones))], 0)
    ELSE Raise("KeyError")     \* table[...] of a string that is no key

\* position after at most n characters c (either case), from p on: c{0,n}
RECURSIVE UpTo(_, _, _, _)
UpTo(toks, p, c, n) ==
    IF n > 0 /\ Upper(Tok(toks, p)) = c THEN UpTo(toks, p + 1, c, n - 1) ELSE p

\* GroupEnd without the two subtractive alternatives
GroupEnd_additive(toks, p, one, five, ten) ==
    UpTo(toks, UpTo(toks, p, five, 1), one, 4)

\* position after Regex(one ten | one five | five? one{0,4}, IGNORECASE);
\* the alternatives are tried in this order
GroupEnd(toks, p, one, five, ten) ==
    IF Upper(Tok(toks, p)) = one /\ Upper(Tok(toks, p + 1)) = ten THEN p + 2
    ELSE IF Upper(Tok(toks, p)) = one /\ Upper(Tok(toks, p + 1)) = five THEN p + 2
    ELSE UpTo(toks, UpTo(toks, p, five, 1), one, 4)

\* romanint = Group( "0r" + FollowedBy(one of the letters) + M{0,4}
\*                   + CM|CD|D?C{0,4} + XC|XL|L?X{0,4} + IX|IV|V?I{0,4} )
romanint(toks, p, act) ==
    IF Tok(toks, p) = "0r" /\ Upper(Tok(toks, p + 1)) \in {"I", "V", "X", "L", "C", "D", "M"}
    THEN LET p1 == UpTo(toks, p + 1, "M", 4)
             p2 == GroupEnd(toks, p1, "C", "D", "M")
             p3 == GroupEnd(toks, p2, "X", "L", "C")
             p4 == GroupEnd(toks, p3, "I", "V", "X")
         IN  Act(act,
                 process_romanint(SubSeq(toks, p + 1, p1 - 1), SubSeq(toks, p1, p2 - 1),
                                  SubSeq(toks, p2, p3 - 1), SubSeq(toks, p3, p4 - 1)),
                 p4)
    ELSE Fail

\* __bases
bases(prefix) == CASE prefix = "0x" -> 16 [] prefix = "0o" -> 8 [] prefix = "0b" -> 2

\* the value of one digit character, as int() reads it
DigitValue(c) ==
    CASE c = "0" -> 0 [] c = "1" -> 1 [] c = "2" -> 2 [] c = "3" -> 3 [] c = "4" -> 4
      [] c = "7" -> 7 [] c = "8" -> 8 [] c = "A" -> 10 [] c = "f" -> 15
\* the character classes [0-9a-fA-F], [0-7], [01]
DigitClass(prefix) ==
    {c \in {"0", "1", "2", "3", "4", "7", "8", "A", "f"} : DigitValue(c) < bases(prefix)}

\* int(str, base)
RECURSIVE int(_, _)
int(str, base) ==
    IF str = <<>> THEN 0
    ELSE int(SubSeq(str, 1, Len(str) - 1), base) * base + DigitValue(str[Len(str)])

\* a sympy rational as a literal node: an Integer when the denominator is 1
Literal(n, d) ==
    LET g == GCD(n, d)
    IN  IF d \div g = 1 THEN [k |-> "Integer", v |-> n \div g]
        ELSE [k |-> "Rational", p |-> n \div g, q |-> d \div g]

\* process_intbase: toks[0] = [prefix, digits]
process_intbase(prefix, digits) ==
    [k |-> "Integer", v |-> int(digits, bases(prefix))]

\* process_realbase with base*exp for base**exp
process_realbase_times(prefix, digits, frac_part) ==
    LET base == bases(prefix)
        i == int(digits, base)
        exp == Len(frac_part)
        r == Literal(int(frac_part, base), base * exp)
    IN  IF r.k = "Integer" THEN [k |-> "Integer", v |-> i + r.v]
        ELSE [k |-> "Rational", p |-> i * r.q + r.p, q |-> r.q]

\* process_realbase: toks[0] = [prefix, digits, ".", frac_part];
\* r = Rational(int(frac_part, base), base**exp), returns i + r
process_realbase(prefix, digits, frac_part) ==
    LET base == bases(prefix)
        i == int(digits, base)
        exp == Len(frac_part)
        r == Literal(int(frac_part, base), IntPow(base, exp))
    IN  IF r.k = "Integer" THEN [k |-> "Integer", v |-> i + r.v]
        ELSE [k |-> "Rational", p |-> i * r.q + r.p, q |-> r.q]

\* hexint, octint, binint = Group( prefix + Regex(digit+) )
intbase(toks, p, act) ==
    IF Tok(toks, p) \in {"0x", "0o", "0b"}
    THEN LET q == SkipRun(toks, p + 1, DigitClass(Tok(toks, p)))
         IN  IF q = p + 1 THEN Fail
             ELSE Ok(IF act THEN process_intbase(Tok(toks, p), SubSeq(toks, p + 1, q - 1))
                     ELSE Nil, q)
    ELSE Fail

\* hexreal, octreal, binreal = Group( prefix + Regex(digit+) + "." + Regex(digit+) )
realbase(toks, p, act) ==
    IF Tok(toks, p) \in {"0x", "0o", "0b"}
    THEN LET q == SkipRun(toks, p + 1, DigitClass(Tok(toks, p)))
             r == SkipRun(toks, q + 1, DigitClass(Tok(toks, p)))
         IN  IF q = p + 1 \/ Tok(toks, q) # "." \/ r = q + 1 THEN Fail
             ELSE Ok(IF act
                     THEN process_realbase(Tok(toks, p), SubSeq(toks, p + 1, q - 1),
                                           SubSeq(toks, q + 1, r - 1))
                     ELSE Nil, r)
    ELSE Fail

(***************************************************************************)
(* The grammar.  Every element takes the line, a position and whether      *)
(* parse actions run, and returns an outcome.  MatchFirst (|) is ordered   *)
(* choice, ZeroOrMore and OneOrMore are greedy and never give back.  Where *)
(* the grammar says  X_term = X_expr | lower  and X_expr begins with       *)
(* lower, lower is parsed once: the second attempt of the source returns   *)
(* the same outcome at the same position (the parser is deterministic and  *)
(* packrat caches it).                                                     *)
(***************************************************************************)
RECURSIVE expr(_, _, _), sign_term(_, _, _), exp_term(_, _, _),
          expr_list(_, _, _, _, _), matrix_rows(_, _, _, _),
          signless_mult_term(_, _, _, _), mult_term(_, _, _, _),
          add_term(_, _, _, _)

\* a | b (MatchFirst): b is tried when a ends with a ParseException
MatchFirst(a, b) == IF a.st # "fail" THEN a ELSE b

\* the lexemes toks[p..q-1] as raw strings of a token list
RawRun(toks, p, q) == [i \in 1..(q - p) |-> Raw(toks[p + i - 1])]

\* X_term = X_expr | lower, with X_expr = Group( lower + OneOrMore( ... ) )
\* and InfixLeftSymbol.process: l is the list of the tokens of lower
\* followed by ZeroOrMore( ... ), which ends at pos; when nothing follows
\* the first operand the group fails and the alternative, that operand
\* alone, is taken
InfixGroup(act, l, pos) ==
    IF Len(l) = 1 THEN Ok(l[1], pos)
    ELSE Act(act, InfixLeftSymbol_process(l), pos)

\* integer = Word(nums) with process_int
integer(toks, p, act) ==
    IF Tok(toks, p) \in IntLexemes
    THEN Ok(IF act THEN process_int(Tok(toks, p)) ELSE Nil, p + 1)
    ELSE Fail

\* number = float_ | unicode_fraction | hexreal | octreal | binreal | romanint
\*          | hexint | octint | binint | integer
\* (decimal floats and the fraction glyphs are not among the lexemes)
number(toks, p, act) ==
    MatchFirst(realbase(toks, p, act),
        MatchFirst(romanint(toks, p, act),
            MatchFirst(intbase(toks, p, act), integer(toks, p, act))))

\* variable = identifier with parse action Constant.process
variable(toks, p, act) ==
    IF identifier(Tok(toks, p))
    THEN Act(act, Constant_process(Tok(toks, p)), p + 1)
    ELSE Fail

operand(toks, p, act) == MatchFirst(number(toks, p, act), variable(toks, p, act))

\* expr + ZeroOrMore( sep + expr ): the list of matched cells; seps is the
\* set of separators
expr_list(toks, p, act, seps, acc) ==
    LET more(acc2, q) ==
            IF Tok(toks, q) \in seps
            THEN MatchFirst(expr_list(toks, q + 1, act, seps, acc2), Ok(acc2, q))
            ELSE Ok(acc2, q)
        cell(r) == IF r.st # "ok" THEN r ELSE more(Append(acc, r.node), r.pos)
    IN  cell(expr(toks, p, act))

\* matrix_row = Group( expr + ZeroOrMore( matrix_sep + expr ) )
matrix_row(toks, p, act) == expr_list(toks, p, act, {","}, <<>>)

\* matrix_row + ZeroOrMore( matrix_rowsep + matrix_row )
matrix_rows(toks, p, act, acc) ==
    LET more(acc2, q) ==
            IF Tok(toks, q) = ";"
            THEN MatchFirst(matrix_rows(toks, q + 1, act, acc2), Ok(acc2, q))
            ELSE Ok(acc2, q)
        row(r) == IF r.st # "ok" THEN r ELSE more(Append(acc, r.node), r.pos)
    IN  row(matrix_row(toks, p, act))

\* matrix = Group( '[' + Optional( rows ) + ']' ) with Matrix.process
matrix(toks, p, act) ==
    LET close(rows, q) ==
            IF Tok(toks, q) # "]" THEN Fail
            ELSE Act(act, Matrix_process(<<rows>>), q + 1)
        optional(r) ==
            IF r.st = "raise" THEN r
            ELSE IF r.st = "ok" THEN close(r.node, r.pos)
            ELSE close(<<>>, p + 1)
    IN  IF Tok(toks, p) # "[" THEN Fail
        ELSE optional(matrix_rows(toks, p + 1, act, <<>>))

\* term = operand | ( lpar + expr + rpar ) | matrix
term(toks, p, act) ==
    LET rpar(r) ==
            IF r.st = "ok" /\ Tok(toks, r.pos) = ")" THEN Ok(r.node, r.pos + 1)
            ELSE IF r.st = "raise" THEN r
            ELSE Fail
    IN  IF operand(toks, p, act).st # "fail" THEN operand(toks, p, act)
        ELSE IF Tok(toks, p) = "(" THEN rpar(expr(toks, p + 1, act))
        ELSE matrix(toks, p, act)

\* func_expr = Group( identifier + lpar + expr + ZeroOrMore( argsep + expr )
\*                    + rpar ) with Function.process
func_expr(toks, p, act) ==
    LET rpar(r) ==
            IF r.st # "ok" THEN r
            ELSE IF Tok(toks, r.pos) # ")" THEN Fail
            ELSE Act(act, Function_process(Tok(toks, p), r.node), r.pos + 1)
    IN  IF identifier(Tok(toks, p)) /\ Tok(toks, p + 1) = "("
        THEN rpar(expr_list(toks, p + 2, act, {",", ";"}, <<>>))
        ELSE Fail

\* func_term = func_expr | term
func_term(toks, p, act) == MatchFirst(func_expr(toks, p, act), term(toks, p, act))

\* fact_term = fact_expr | func_term,
\* fact_expr = Group( func_term + OneOrMore(factop) ) with PostfixSymbol.process
fact_term(toks, p, act) ==
    LET marks(f, q) ==
            IF q = f.pos THEN f
            ELSE Act(act, PostfixSymbol_process(<<f.node>> \o RawRun(toks, f.pos, q)), q)
        fact_expr(f) == IF f.st # "ok" THEN f ELSE marks(f, SkipRun(toks, f.pos, factop))
    IN  fact_expr(func_term(toks, p, act))

\* exp_tail with fact_term for exp_term as the right operand
exp_tail_flat(toks, lhs, p, act) ==
    LET q == SkipRun(toks, p + 1, signop)
        power(r) ==
            IF r.st # "ok" THEN r
            ELSE Act(act, Exponent_process(<<lhs>> \o RawRun(toks, p, q) \o <<r.node>>),
                     r.pos)
    IN  IF Tok(toks, p) \notin expop THEN Fail
        ELSE power(fact_term(toks, q, act))

\* the tail  expop + ZeroOrMore(signop) + exp_term  after a left operand,
\* handed with it to Exponent.process; a ParseException when it is not there
exp_tail(toks, lhs, p, act) ==
    LET q == SkipRun(toks, p + 1, signop)
        power(r) ==
            IF r.st # "ok" THEN r
            ELSE Act(act, Exponent_process(<<lhs>> \o RawRun(toks, p, q) \o <<r.node>>),
                     r.pos)
    IN  IF Tok(toks, p) \notin expop THEN Fail
        ELSE power(exp_term(toks, q, act))

\* exp_term = exp_expr | fact_term,
\* exp_expr = Group( fact_term + expop + ZeroOrMore(signop) + exp_term )
exp_term(toks, p, act) ==
    LET exp_expr(f) ==
            IF f.st # "ok" THEN f
            ELSE MatchFirst(exp_tail(toks, f.node, f.pos, act), f)
    IN  exp_expr(fact_term(toks, p, act))

\* sign_term = sign_expr | exp_term,
\* sign_expr = FollowedBy(signop + sign_term) + Group( Optional(signop) + sign_term )
\* with PrefixSymbol.process; the lookahead runs no parse action
sign_term(toks, p, act) ==
    LET sign_expr(r) ==
            IF r.st # "ok" THEN r
            ELSE Act(act, PrefixSymbol_process(Raw(Tok(toks, p)), r.node), r.pos)
    IN  IF Tok(toks, p) \in signop /\ sign_term(toks, p + 1, FALSE).st = "ok"
        THEN sign_expr(sign_term(toks, p + 1, act))
        ELSE exp_term(toks, p, act)

\* sm_exp_expr = Group( variable + expop + ZeroOrMore(signop) + exp_term )
sm_exp_expr(toks, p, act) ==
    LET v == variable(toks, p, act)
    IN  IF v.st # "ok" THEN v ELSE exp_tail(toks, v.node, v.pos, act)

\* signless_mult_term without the alternative signless_mult_expr
signless_mult_term_bare(toks, p, act, acc) == sign_term(toks, p, act)

\* signless_mult_term = signless_mult_expr | sign_term,
\* signless_mult_expr = Group( sign_term + OneOrMore( sm_exp_expr | variable ) ):
\* acc holds the factors matched so far, the next one is looked for at p;
\* the first is a sign_term, and the repetition ends where no factor matches
signless_mult_term(toks, p, act, acc) ==
    LET more(r) ==
            IF r.st = "ok"
            THEN signless_mult_term(toks, r.pos, act, Append(acc, r.node))
            ELSE IF acc = <<>> \/ r.st = "raise" THEN r
            ELSE InfixGroup(act, acc, p)
    IN  more(IF acc = <<>> THEN sign_term(toks, p, act)
             ELSE MatchFirst(sm_exp_expr(toks, p, act), variable(toks, p, act)))

\* mult_term = mult_expr | signless_mult_term,
\* mult_expr = Group( signless_mult_term + OneOrMore( multop + signless_mult_term ) ):
\* acc holds the tokens matched so far and ends with an operator, the next
\* operand is looked for at p; an operator that no operand follows is
\* given back
mult_term(toks, p, act, acc) ==
    LET more(r) ==
            IF r.st = "ok" /\ Tok(toks, r.pos) \in multop
            THEN mult_term(toks, r.pos + 1, act, acc \o <<r.node, Raw(Tok(toks, r.pos))>>)
            ELSE IF acc = <<>> \/ r.st = "raise" THEN r
            ELSE IF r.st = "fail" THEN InfixGroup(act, SubSeq(acc, 1, Len(acc) - 1), p - 1)
            ELSE InfixGroup(act, Append(acc, r.node), r.pos)
    IN  more(signless_mult_term(toks, p, act, <<>>))

\* add_term = add_expr | mult_term,
\* add_expr = Group( mult_term + OneOrMore( addop + mult_term ) )
add_term(toks, p, act, acc) ==
    LET more(r) ==
            IF r.st = "ok" /\ Tok(toks, r.pos) \in addop
            THEN add_term(toks, r.pos + 1, act, acc \o <<r.node, Raw(Tok(toks, r.pos))>>)
            ELSE IF acc = <<>> \/ r.st = "raise" THEN r
            ELSE IF r.st = "fail" THEN InfixGroup(act, SubSeq(acc, 1, Len(acc) - 1), p - 1)
            ELSE InfixGroup(act, Append(acc, r.node), r.pos)
    IN  more(mult_term(toks, p, act, <<>>))

\* expr <<= add_term, with Expression.process
expr(toks, p, act) ==
    LET wrap(r) == IF r.st # "ok" THEN r
                   ELSE Act(act, Expression_process(<<r.node>>), r.pos)
    IN  wrap(add_term(toks, p, act, <<>>))


(***************************************************************************)
(* The sub-grammar of unit expressions (right of `to`).                    *)
(***************************************************************************)
RECURSIVE unit_expr(_, _, _), unit_sign_term(_, _, _), unit_mult_term(_, _, _, _)

\* single_unit = identifier with Unit.process
single_unit(toks, p, act) ==
    IF identifier(Tok(toks, p))
    THEN Act(act, Unit_process(Tok(toks, p)), p + 1)
    ELSE Fail

\* literal_one = Literal("1") with Unit.process_dimensionless
literal_one(toks, p, act) ==
    IF Tok(toks, p) = "1"
    THEN Ok(IF act THEN Unit("1") ELSE Nil, p + 1)
    ELSE Fail

\* unit_term = single_unit | literal_one | ( lpar + unit_expr + rpar )
unit_term(toks, p, act) ==
    LET rpar(r) ==
            IF r.st = "raise" THEN r
            ELSE IF r.st = "ok" /\ Tok(toks, r.pos) = ")" THEN Ok(r.node, r.pos + 1)
            ELSE Fail
    IN  MatchFirst(single_unit(toks, p, act),
            MatchFirst(literal_one(toks, p, act),
                       IF Tok(toks, p) = "(" THEN rpar(unit_expr(toks, p + 1, act))
                       ELSE Fail))

\* unit_exp_term = unit_exp_expr | unit_term,
\* unit_exp_expr = Group( unit_term + expop + ZeroOrMore(signop) + exp_term )
unit_exp_term(toks, p, act) ==
    LET f == unit_term(toks, p, act)
    IN  IF f.st # "ok" THEN f ELSE MatchFirst(exp_tail(toks, f.node, f.pos, act), f)

\* unit_sign_term = unit_sign_expr | unit_exp_term
unit_sign_term(toks, p, act) ==
    LET unit_sign_expr(r) ==
            IF r.st # "ok" THEN r
            ELSE Act(act, PrefixSymbol_process(Raw(Tok(toks, p)), r.node), r.pos)
    IN  IF Tok(toks, p) \in signop /\ unit_sign_term(toks, p + 1, FALSE).st = "ok"
        THEN unit_sign_expr(unit_sign_term(toks, p + 1, act))
        ELSE unit_exp_term(toks, p, act)

\* unit_mult_term = unit_mult_expr | unit_sign_term,
\* unit_mult_expr = Group( unit_sign_term + OneOrMore( multop + unit_sign_term ) )
unit_mult_term(toks, p, act, acc) ==
    LET more(r) ==
            IF r.st = "ok" /\ Tok(toks, r.pos) \in multop
            THEN unit_mult_term(toks, r.pos + 1, act,
                                acc \o <<r.node, Raw(Tok(toks, r.pos))>>)
            ELSE IF acc = <<>> \/ r.st = "raise" THEN r
            ELSE IF r.st = "fail" THEN InfixGroup(act, SubSeq(acc, 1, Len(acc) - 1), p - 1)
            ELSE InfixGroup(act, Append(acc, r.node), r.pos)
    IN  more(unit_sign_term(toks, p, act))

\* unit_expr <<= unit_mult_term, with Expression.process
unit_expr(toks, p, act) ==
    LET wrap(r) == IF r.st # "ok" THEN r
                   ELSE Act(act, Expression_process(<<r.node>>), r.pos)
    IN  wrap(unit_mult_term(toks, p, act, <<>>))

(***************************************************************************)
(* A command line.                                                         *)
(***************************************************************************)
\* conversion_cmd = expr + to_token (Literal("to") + unit_expr) with Conversion.process;
\* e is the outcome of the expr it begins with
conversion_cmd(toks, act, e) ==
    LET to_unit(u) ==
            IF u.st # "ok" THEN u
            ELSE Act(act, Conversion_process(<<e.node, Raw("to"), u.node>>), u.pos)
    IN  IF e.st # "ok" THEN e
        ELSE IF Tok(toks, e.pos) # "to" THEN Fail
        ELSE to_unit(unit_expr(toks, e.pos + 1, act))

\* equality = expr + equals_token + expr with Equality.process
equality(toks, act, e) ==
    LET rhs(r) ==
            IF r.st # "ok" THEN r
            ELSE Act(act, Equality_process(<<e.node, Raw("="), r.node>>), r.pos)
    IN  IF e.st # "ok" THEN e
        ELSE IF Tok(toks, e.pos) # "=" THEN Fail
        ELSE rhs(expr(toks, e.pos + 1, act))

\* cmdln = conversion_cmd | equality | expr: all three begin with expr,
\* whose outcome is e
cmdln(toks, act, e) ==
    MatchFirst(conversion_cmd(toks, act, e), MatchFirst(equality(toks, act, e), e))

\* preprocess: a superscript digit becomes `^` and the digit
RECURSIVE preprocess(_)
preprocess(toks) ==
    IF toks = <<>> THEN <<>>
    ELSE (CASE Head(toks) = "U+00B2" -> <<"^", "2">>
            [] Head(toks) = "U+00B3" -> <<"^", "3">>
            [] OTHER -> <<Head(toks)>>) \o preprocess(Tail(toks))

\* cmdln.parseString(toks, parseAll=True)
parseString(toks) ==
    LET parseAll(r) == IF r.st = "ok" /\ r.pos # Len(toks) + 1 THEN Fail ELSE r
    IN  parseAll(cmdln(toks, TRUE, expr(toks, 1, TRUE)))

\* parse: preprocess, then cmdln.parseString(string, parseAll=True)[0]
parse(string) == parseString(preprocess(string))


(***************************************************************************)
(* Values.  The Numeric Engine is followed on rationals up to MaxMag; a    *)
(* larger number is Big, a value that is not a rational number (a symbol,  *)
(* an irrational power, complex infinity) is Symbolic, the outcome of      *)
(* arithmetic on a raw operator string is NotNumber.                       *)
(***************************************************************************)
Big == [k |-> "Big"]
Symbolic == [k |-> "Symbolic"]
NotNumber == [k |-> "NotNumber"]
\* an exception raised by evaluate, with the arguments it was made with
ErrorWith(e, a) == [k |-> "Error", e |-> e, args |-> a]
Error(e) == ErrorWith(e, <<>>)

\* sympy.Matrix (mutable, what Matrix.evaluate returns) and what sympify
\* makes of it, sympy.ImmutableMatrix, which is no sympy.Matrix
MatrixValue(data) == [k |-> "MatrixValue", data |-> data]
ImmutableMatrix(data) == [k |-> "ImmutableMatrix", data |-> data]
IsMatrix(v) == v.k \in {"MatrixValue", "ImmutableMatrix"}

\* sympy.Float, a value of kind Float: the rational n / d read as a float
Float(n, d) == [k |-> "Float", n |-> n, d |-> d]

\* sympy.Rational(n, d): lowest terms, positive denominator
Rational(n, d) ==
    IF d = 0 THEN Symbolic
    ELSE LET g == GCD(Abs(n), Abs(d))
             sn == IF d < 0 THEN -n ELSE n
         IN  IF Abs(n) \div g > MaxMag \/ Abs(d) \div g > MaxMag
             THEN Big
             ELSE [k |-> "Number", n |-> sn \div g, d |-> Abs(d) \div g]

Number(n) == Rational(n, 1)
IsNumber(v) == v.k = "Number"

\* how two operands that are not both rationals combine
Absorb(a, b) ==
    IF a.k = "Error" THEN a
    ELSE IF b.k = "Error" THEN b
    ELSE IF a.k = "NotNumber" \/ b.k = "NotNumber" THEN NotNumber
    ELSE IF {a.k, b.k} \subseteq {"Number", "Big"} THEN Big
    ELSE Symbolic

\* a rational or a float; the result of arithmetic on a float is a float
IsReal(v) == v.k \in {"Number", "Float"}
Inexact(r, a, b) ==
    IF IsNumber(r) /\ "Float" \in {a.k, b.k} THEN Float(r.n, r.d) ELSE r

\* sympy arithmetic on two magnitudes
NumAdd(a, b) ==
    IF IsReal(a) /\ IsReal(b)
    THEN Inexact(Rational(a.n * b.d + b.n * a.d, a.d * b.d), a, b)
    ELSE Absorb(a, b)
NumNeg(a) == IF IsReal(a) THEN Inexact(Rational(-a.n, a.d), a, a) ELSE a
\* a matrix times or over a scalar is the matrix of the scaled cells
RECURSIVE NumMul(_, _)
NumMul(a, b) ==
    IF IsReal(a) /\ IsReal(b) THEN Inexact(Rational(a.n * b.n, a.d * b.d), a, b)
    ELSE IF IsMatrix(a) /\ IsReal(b)
    THEN [a EXCEPT !.data = [r \in DOMAIN a.data |->
                               [c \in DOMAIN a.data[r] |-> NumMul(a.data[r][c], b)]]]
    ELSE IF IsReal(a) /\ IsMatrix(b)
    THEN NumMul(b, a)
    ELSE Absorb(a, b)
NumDiv(a, b) ==
    IF IsReal(a) /\ IsReal(b) THEN Inexact(Rational(a.n * b.d, a.d * b.n), a, b)
    ELSE IF IsMatrix(a) /\ IsReal(b) /\ b.n # 0
    THEN NumMul(a, Inexact(Rational(b.d, b.n), b, b))
    ELSE Absorb(a, b)

\* sympy.floor
NumFloor(a) == IF IsNumber(a) THEN Number(a.n \div a.d) ELSE a

\* a ** e for an integer e >= 0, by repeated multiplication
RECURSIVE PowAcc(_, _, _)
PowAcc(acc, a, e) ==
    IF e = 0 \/ ~IsNumber(acc) THEN acc ELSE PowAcc(NumMul(acc, a), a, e - 1)

NumPow(a, b) ==
    IF ~(IsNumber(a) /\ IsNumber(b)) THEN Absorb(a, b)
    ELSE IF b.d # 1
    THEN IF a.n = a.d THEN Number(1) ELSE Symbolic   \* 1 ** r = 1, else a root
    ELSE IF a.n = 0
    THEN IF b.n > 0 THEN Number(0) ELSE IF b.n = 0 THEN Number(1) ELSE Symbolic
    ELSE IF a.d = 1 /\ Abs(a.n) = 1
    THEN IF a.n = 1 \/ b.n % 2 = 0 THEN Number(1) ELSE Number(-1)
    ELSE IF b.n >= 0
    THEN PowAcc(Number(1), a, b.n)
    ELSE PowAcc(Number(1), Rational(a.d, a.n), -b.n)

\* sympy.factorial on a rational
RECURSIVE FactAcc(_, _)
FactAcc(acc, i) ==
    IF i <= 1 \/ ~IsNumber(acc) THEN acc ELSE FactAcc(NumMul(acc, Number(i)), i - 1)

NumFactorial(a) ==
    IF ~IsNumber(a) THEN a
    ELSE IF a.d # 1 THEN Symbolic
    ELSE IF a.n < 0 THEN Symbolic      \* complex infinity
    ELSE FactAcc(Number(1), a.n)

(***************************************************************************)
(* Quantities: a magnitude and the exponent of every unit name, as pint    *)
(* keeps them (no conversion on multiplication and division).              *)
(***************************************************************************)
NoUnits == [u \in UnitNames |-> 0]
\* Quantity.__new__: the magnitude is sympified
Quantity(mag, units) ==
    [k |-> "Quantity",
     magnitude |-> IF mag.k = "MatrixValue" THEN ImmutableMatrix(mag.data) ELSE mag,
     units |-> units]
IsQuantity(v) == v.k = "Quantity"
UnitValue(name) ==
    Quantity(Number(1), [u \in UnitNames |-> IF u = name THEN 1 ELSE 0])

\* the dimension of a unit vector: the exponents of length and time
Dimension(units) ==
    [length |-> units["m"] + units["cm"] + units["km"], time |-> units["h"]]

\* what one of a unit is in the base unit of its dimension (metre, second)
Scale(name) ==
    CASE name = "m" -> Number(1)
      [] name = "cm" -> Rational(1, 100)
      [] name = "km" -> Number(1000)
      [] name = "h" -> Number(3600)

\* the conversion that keeps the magnitude and relabels the unit
convert_to_relabel(q, unit) ==
    IF Dimension(q.units) # Dimension(unit)
    THEN Error("DimensionalityError")
    ELSE Quantity(q.magnitude, unit)

\* Quantity.convert_to: pint converts one of the old unit to the new unit
\* (DimensionalityError when the dimensions differ) and the magnitude is
\* multiplied by that factor, read as a sympy.Float
convert_to(q, unit) ==
    IF Dimension(q.units) # Dimension(unit)
    THEN Error("DimensionalityError")
    ELSE LET p(u) == NumPow(Scale(u), Number(q.units[u] - unit[u]))
             \* sympy.Float(str(factor), 100)
             float(factor) == IF IsNumber(factor) THEN Float(factor.n, factor.d) ELSE factor
             scaled(magnitude) == Quantity(magnitude, unit)
         IN  scaled(NumMul(float(NumMul(NumMul(p("m"), p("cm")), NumMul(p("km"), p("h")))),
                           q.magnitude))

Mag(v) == IF IsQuantity(v) THEN v.magnitude ELSE v
UnitsOf(v) == IF IsQuantity(v) THEN v.units ELSE NoUnits

Failed(v) == v.k \in {"Error", "NotNumber"}

\* Quantity.__mul__ / __rmul__, delegating to pint
ValMul(a, b) ==
    IF Failed(a) \/ Failed(b) THEN Absorb(a, b)
    ELSE IF IsQuantity(a) \/ IsQuantity(b)
    THEN Quantity(NumMul(Mag(a), Mag(b)),
                  [u \in UnitNames |-> UnitsOf(a)[u] + UnitsOf(b)[u]])
    ELSE NumMul(a, b)

\* Quantity.__truediv__ / __rtruediv__
ValDiv(a, b) ==
    IF Failed(a) \/ Failed(b) THEN Absorb(a, b)
    ELSE IF IsQuantity(a) \/ IsQuantity(b)
    THEN Quantity(NumDiv(Mag(a), Mag(b)),
                  [u \in UnitNames |-> UnitsOf(a)[u] - UnitsOf(b)[u]])
    ELSE NumDiv(a, b)

\* the addition that takes a plain number for a neutral, unit-free operand
ValAdd_lenient(a, b) ==
    IF IsQuantity(a) /\ IsQuantity(b) /\ Dimension(a.units) # Dimension(b.units)
    THEN Error("DimensionalityError")
    ELSE IF IsQuantity(a) THEN a
    ELSE b

\* Quantity.__add__ / __radd__: pint adds two quantities, converting the
\* second (a float factor) when the units differ; a quantity and a number
\* add after the quantity is converted to dimensionless
ValAdd(a, b) ==
    IF Failed(a) \/ Failed(b) THEN Absorb(a, b)
    ELSE IF IsQuantity(a) /\ IsQuantity(b)
    THEN IF a.units = b.units
         THEN Quantity(NumAdd(a.magnitude, b.magnitude), a.units)
         ELSE IF Dimension(a.units) = Dimension(b.units)
         THEN Quantity(Symbolic, a.units)
         ELSE Error("DimensionalityError")
    ELSE IF IsQuantity(a) \/ IsQuantity(b)
    THEN LET q == IF IsQuantity(a) THEN a ELSE b
             o == IF IsQuantity(a) THEN b ELSE a
         IN  IF o.k \in {"Number", "Big"}
             THEN IF Dimension(q.units) # [length |-> 0, time |-> 0]
                  THEN Error("DimensionalityError")
                  ELSE IF q.units = NoUnits
                  THEN NumAdd(Mag(a), Mag(b))
                  ELSE Symbolic
             ELSE Symbolic
    ELSE NumAdd(a, b)

ValNeg(a) ==
    IF Failed(a) THEN Absorb(a, a)
    ELSE IF IsQuantity(a) THEN Quantity(NumNeg(a.magnitude), a.units)
    ELSE NumNeg(a)

\* a Quantity some of whose unit exponents are no integers: the base and
\* the exponent it was raised to; its arithmetic is not followed
FractionalQuantity(base, exponent) ==
    [k |-> "FractionalQuantity", base |-> base, exponent |-> exponent]

\* Quantity.__pow__ / __rpow__: a Quantity in the exponent is unwrapped
\* to the magnitude of its conversion to dimensionless; a Quantity is
\* raised to a real number by pint, as a float, and to anything else by
\* sympy, which keeps the power symbolic
ValPow(a, b) ==
    LET \* self.quantity ** exp
        raised(exp, power) ==
            IF ~IsNumber(exp) THEN Symbolic
            ELSE IF \E n \in UnitNames : (a.units[n] * exp.n) % exp.d # 0
            THEN FractionalQuantity(a, exp)
            ELSE Quantity(IF IsNumber(power) /\ a.magnitude \notin {Number(0), Number(1)}
                          THEN Float(power.n, power.d)
                          ELSE power,
                          [n \in UnitNames |-> (a.units[n] * exp.n) \div exp.d])
        \* float(other)
        float(other) == IF other.k = "Float" THEN Rational(other.n, other.d) ELSE other
        pow(exp) == raised(exp, NumPow(Mag(a), exp))
        unwrapped(u) ==
            IF Failed(a) \/ Failed(b) THEN Absorb(a, b)
            ELSE IF u.k = "Error" THEN u
            ELSE IF ~IsQuantity(a) THEN NumPow(a, Mag(u))
            ELSE pow(float(Mag(u)))
    IN  unwrapped(IF IsQuantity(b) THEN convert_to(b, NoUnits) ELSE b)

\* sympy.floor(lhs / rhs) and sympy.factorial(lhs)
ValFloor(a) == IF Failed(a) THEN Absorb(a, a) ELSE IF IsQuantity(a) THEN Symbolic ELSE NumFloor(a)
ValFactorial(a) == IF Failed(a) THEN Absorb(a, a) ELSE IF IsQuantity(a) THEN Symbolic ELSE NumFactorial(a)

(***************************************************************************)
(* Evaluation: Operator._eval evaluates a node and passes anything else    *)
(* back as it is; a raw operator string stays a string.                    *)
(***************************************************************************)
RECURSIVE evaluate(_)

\* Matrix.evaluate: the cells are evaluated row by row and handed to
\* sympy.Matrix, which refuses None as data and rows of unequal length
Matrix_evaluate(node) ==
    IF node.rows = 0
    THEN Error("TypeError")     \* data is None
    ELSE LET evaluated == [r \in 1..Len(node.data) |->
                             [c \in 1..Len(node.data[r]) |-> evaluate(node.data[r][c])]]
             cells == UNION {{<<r, c>> : c \in 1..Len(evaluated[r])} :
                               r \in 1..Len(evaluated)}
             bad == {rc \in cells : evaluated[rc[1]][rc[2]].k = "Error"}
         IN  IF bad # {}
             THEN LET first == CHOOSE rc \in bad :
                                 \A o \in bad : rc[1] < o[1] \/ (rc[1] = o[1] /\ rc[2] <= o[2])
                  IN  evaluated[first[1]][first[2]]
             ELSE IF \E r \in 1..Len(evaluated) : Len(evaluated[r]) # Len(evaluated[1])
             THEN Error("ShapeError")
             ELSE MatrixValue(evaluated)

\* what the implementation of a function returns for the arguments it is
\* called with: the call itself, not followed further
Applied(fn, args) == [k |-> "Applied", fn |-> fn, args |-> args]

\* Function.evaluate: the arguments are evaluated, then each is tested
\* against the mask of its parameter, in order; the first failure raises
Function_evaluate(node) ==
    LET \* the first exception in a list of outcomes, if there is one
        first(vals, otherwise) ==
            IF \E i \in 1..Len(vals) : vals[i].k = "Error"
            THEN vals[CHOOSE i \in 1..Len(vals) :
                        /\ vals[i].k = "Error"
                        /\ \A j \in 1..(i - 1) : vals[j].k # "Error"]
            ELSE otherwise
        \* isinstance(argtest, sympy.Matrix), argtest the magnitude of a Quantity
        test(arg, argspec) ==
            IF arg.k = "Error" THEN arg
            ELSE IF Mag(arg).k = "MatrixValue"
            THEN IF ~argspec.matrix THEN ErrorWith("ValueError", <<node.fn_s>>) ELSE arg
            ELSE IF ~argspec.scalar THEN ErrorWith("ValueError", <<node.fn_s>>)
            ELSE arg
        \* arg.convert_to("dimensionless").magnitude
        magnitude(c) == IF c.k = "Error" THEN c ELSE c.magnitude
        check(arg, argspec) ==
            test(IF IsQuantity(arg) /\ ~argspec.unit
                 THEN magnitude(convert_to(arg, NoUnits))
                 ELSE arg, argspec)
        \* zip(args, self.argspec), then self.fn(*args2)
        call(args2) == first(args2, Applied(node.fn, args2))
        checked(args) ==
            first(args, call([i \in 1..(IF Len(args) < Len(node.argspec)
                                         THEN Len(args) ELSE Len(node.argspec)) |->
                                check(args[i], node.argspec[i])]))
    IN  checked([i \in 1..Len(node.args) |-> evaluate(node.args[i])])

\* Conversion.evaluate: anything that is no Quantity is wrapped as
\* dimensionless, then converted; what pint does with a target that is an
\* expression and no unit is not followed
Conversion_evaluate(node) ==
    LET convert(e, to_unit) ==
            IF Failed(e) \/ Failed(to_unit) THEN Absorb(e, to_unit)
            ELSE IF ~IsQuantity(to_unit) THEN Symbolic
            ELSE convert_to(IF IsQuantity(e) THEN e ELSE Quantity(e, NoUnits),
                            to_unit.units)
    IN  convert(evaluate(node.expr), evaluate(node.to_unit))

\* a Python bool, the unsolved equality and result.Solutions
Bool(b) == [k |-> "Bool", v |-> b]
Eq(lhs, rhs) == [k |-> "Eq", lhs |-> lhs, rhs |-> rhs]
Solutions(x, solutions) == [k |-> "Solutions", x |-> x, solutions |-> solutions]

\* the comparison of the bare magnitudes
Quantity_eq_magnitudes(q, other, o) == Bool(Mag(q) = Mag(other))

\* the comparison that pint alone would make, without the branch for zero
Quantity_eq_pint(q, other, o) ==
    IF IsQuantity(other)
    THEN Bool(/\ Dimension(q.units) = Dimension(other.units)
              /\ convert_to(q, other.units).magnitude.n * Mag(other).d
                   = Mag(other).n * convert_to(q, other.units).magnitude.d)
    ELSE Bool(q.units = NoUnits /\ q.magnitude = other)

\* Quantity.__eq__(q, other): a Bool, or Nil when the last branch falls
\* through without a return.  Floats are compared as the rationals they
\* stand for; o.eq answers for magnitudes that are no numbers.
Quantity_eq(q, other, o) ==
    LET num(v) == v.k \in {"Number", "Float", "PyFloat"}
        zero(v) == num(v) /\ v.n = 0
        \* pint's _eq on two magnitudes
        mageq(x, y) == IF num(x) /\ num(y) THEN x.n * y.d = y.n * x.d ELSE o.eq = "true"
        \* self.quantity == other: zero magnitudes are equal when the
        \* dimensions are, equal units compare the magnitudes, other units
        \* are converted first (DimensionalityError is not equal)
        pint(converted) ==
            IF zero(q.magnitude) /\ zero(Mag(other))
            THEN Dimension(q.units) = Dimension(UnitsOf(other))
            ELSE IF q.units = UnitsOf(other)
            THEN mageq(q.magnitude, Mag(other))
            ELSE IF converted.k = "Error"
            THEN FALSE
            ELSE mageq(converted.magnitude, Mag(other))
    IN  IF ~IsQuantity(other) /\ zero(other) /\ zero(q.magnitude) THEN Bool(TRUE)
        ELSE IF IsQuantity(other) \/ other.k = "PyFloat"
        THEN Bool(pint(convert_to(q, UnitsOf(other))))
        ELSE Nil

\* the evaluation that wraps whatever the solver returns
Equality_evaluate_unguarded(node, o) ==
    IF o.simplify \in {"true", "false"} THEN Bool(o.simplify = "true")
    ELSE Solutions("x", o.solve.solutions)

\* Equality.evaluate.  sympy.Eq compares the sides (lhs == rhs), then looks
\* at their difference, which is where units that do not fit raise the
\* ValueError that is caught; a Quantity is declared positive, so a
\* difference that is a Quantity is not zero.
Equality_evaluate(node, o) ==
    LET \* sympy.Eq(lhs, rhs), then eq.simplify(), then sympy.solve(eq, _X)
        decide(lhs, rhs, eq) ==
            IF eq \in {"true", "false"} THEN Bool(eq = "true")
            ELSE IF eq = "ValueError" THEN Bool(FALSE)
            ELSE IF o.simplify \in {"true", "false"} THEN Bool(o.simplify = "true")
            ELSE IF o.solve.solutions = <<>> THEN Eq(lhs, rhs)
            ELSE Solutions("x", o.solve.solutions)
        \* lhs == rhs, else the difference lhs - rhs
        relate(same, dif) ==
            IF same = Bool(TRUE) THEN "true"
            ELSE IF dif.k = "Error" THEN "ValueError"
            ELSE IF IsQuantity(dif) THEN "false"
            ELSE IF IsNumber(dif) THEN (IF dif.n = 0 THEN "true" ELSE "false")
            ELSE o.eq
        sides(lhs, rhs) ==
            IF Failed(lhs) \/ Failed(rhs) THEN Absorb(lhs, rhs)
            ELSE decide(lhs, rhs,
                        relate(IF IsQuantity(lhs) \/ (IsQuantity(rhs) /\ o.reflected)
                               THEN Quantity_eq(IF IsQuantity(lhs) THEN lhs ELSE rhs,
                                                IF IsQuantity(lhs) THEN rhs ELSE lhs, o)
                               ELSE Bool(IF IsQuantity(rhs) THEN FALSE
                                         ELSE IF IsNumber(lhs) /\ IsNumber(rhs)
                                         THEN lhs = rhs
                                         ELSE o.eq = "true"),
                               ValAdd(lhs, ValNeg(rhs))))
    IN  sides(evaluate(node.lhs), evaluate(node.rhs))

evaluate(node) ==
    CASE node.k = "Integer" -> Number(node.v)
      [] node.k = "Rational" -> Rational(node.p, node.q)
      [] node.k = "Raw" -> NotNumber
      [] node.k = "Constant" -> Symbolic
      [] node.k = "Unit" ->
            IF node.name = "1" THEN Quantity(Number(1), NoUnits) ELSE UnitValue(node.name)
      [] node.k = "Expression" -> evaluate(node.expr)
      [] node.k = "Plus" -> ValAdd(evaluate(node.lhs), evaluate(node.rhs))
      [] node.k = "Minus" -> ValAdd(evaluate(node.lhs), ValNeg(evaluate(node.rhs)))
      [] node.k = "Times" -> ValMul(evaluate(node.lhs), evaluate(node.rhs))
      [] node.k = "Divide" -> ValDiv(evaluate(node.lhs), evaluate(node.rhs))
      [] node.k = "IntDivide" -> ValFloor(ValDiv(evaluate(node.lhs), evaluate(node.rhs)))
      [] node.k = "Exponent" -> ValPow(evaluate(node.lhs), evaluate(node.rhs))
      [] node.k = "Factorial" -> ValFactorial(evaluate(node.lhs))
      [] node.k = "MinusSign" -> ValNeg(evaluate(node.rhs))
      [] node.k = "PlusSign" -> evaluate(node.rhs)
      [] node.k = "Matrix" -> Matrix_evaluate(node)
      [] node.k = "Function" -> Function_evaluate(node)
      [] node.k = "Conversion" -> Conversion_evaluate(node)
      [] OTHER -> Symbolic


(***************************************************************************)
(* Roman rendering.                                                        *)
(***************************************************************************)
\* a Python float handed to the classmethod
PyFloat(n, d) == [k |-> "PyFloat", n |-> n, d |-> d]

\* RomanInt.int_to_roman; `val` is its parameter `integer`, the rational
\* val.n / val.d when it is a number
int_to_roman(val) ==
    LET \* isinstance(integer, (float, sympy.Float)) and integer % 1 == 0,
        \* or isinstance(integer, int), or a sympy Integer
        integral == val.k \in {"Number", "Float", "PyFloat"} /\ val.d = 1
        \* integer.is_integer: of a Python float it is a bound method
        is_integer == val.k \in {"PyFloat", "Big"}
    IN  IF ~integral /\ ~is_integer
        THEN Raise("ValueError")    \* only supported for integers
        ELSE IF val.k = "Big"
        THEN Raise("ValueError")    \* outside the interval
        ELSE LET retval == IF val.n < val.d THEN <<"-">> ELSE <<>>
                 a == IF val.n < val.d THEN Abs(val.n) ELSE val.n
             IN  IF a < val.d \/ a > 4999 * val.d
                 THEN Raise("ValueError")
                 ELSE IF val.d # 1
                 THEN Raise("TypeError")    \* "M" * (integer // 1000)
                 ELSE \* the three statements after `# Convert`
                      Ok(retval \o Rep("M", a \div 1000)
                             \o rev_table(((a % 1000) \div 100) * 100)
                             \o rev_table(((a % 100) \div 10) * 10)
                             \o rev_table(a % 10), 0)

(***************************************************************************)
(* The read-eval-print loop of pscic.py.  A line is typed lexeme by        *)
(* lexeme; the shape of a session says which lexemes may stand at which    *)
(* place of the line.                                                      *)
(***************************************************************************)
\* the shapes of the sessions: free lines over a general alphabet, lines
\* with a pair of parentheses, chains of infix operators of one level and
\* of mixed levels, chains of prefix signs, lines of exponents with signs,
\* numbers with units, names in expressions and after `to`, conversions,
\* sums, differences and powers of quantities and numbers, equalities with and
\* without units,
\* function calls,
\* calls on numbers, quantities and matrices, matrix literals
Shapes ==
    LET Free(n, A) == [i \in 1..n |-> A]
        Chain(n, operands, ops) ==
            [i \in 1..(2 * n - 1) |-> IF i % 2 = 1 THEN operands ELSE ops]
        nums == {"2", "3"}
        units == {"cm", "h"}
    IN  {Free(MaxLen, {"2", "3", "x", "-", "*", "^", "!"}),
         <<nums, {"*", "^", "!"}, {"("}, nums, {"+", "*", ")"}, nums, {")"}, {"!"}>>}
        \cup {Chain(MaxChain, {"1", "2"}, addop),
              Chain(MaxChain, {"1", "2"}, multop),
              Chain(3, nums, addop \cup multop \cup expop),
              Chain(3, nums \cup {"x"}, expop)}
        \cup {Free(n, signop) \o <<nums>> : n \in 1..MaxSignChain}
        \cup {pre \o <<nums, expop>> \o Free(k1, signop) \o <<nums, expop>>
                 \o Free(k2, signop) \o <<nums>> :
               <<pre, k1, k2>> \in
                 {t \in {<<>>, <<signop>>} \X (0..MaxExpSigns) \X (0..MaxExpSigns) :
                    Len(t[1]) + t[2] + t[3] <= MaxExpSigns}}
        \cup {<<nums, units \cup {"/", "*", "//"}, units \cup nums \cup {"/", "*", "//"},
                units \cup nums, units>>,
              <<{"+", "-"}, nums, units, {"^"}, nums>>,
              <<nums, {"x", "pi", "cm", "foo", "sin"}, {"to", "*", "^"},
                {"m", "x", "foo", "1", "2"}, {"^", "*"}, {"2", "foo", "x", "cm"}>>,
              <<nums, {"to", "cm", "km", "h"}, {"to", "1", "/"}, {"cm", "m", "1", "h"},
                {"to"}, {"m", "h", "1"}, {"/", "^"}, {"h", "2"}>>,
              <<{"0", "1", "2"}, units \cup {"m", "+", "-"}, {"+", "-", "0", "2"},
                {"0", "1", "2", "cm", "h"}, units \cup {"m"}>>,
              <<{"2", "cm", "m"}, {"cm", "^"}, {"^", "2", "x", "cm", "h", "(", "-"},
                {"2", "x", "h", "(", "m", "1"}, {"m", "1", "/"}, {"/", "2", "cm"},
                {"cm", "m", "2", ")"}, {")"}>>,
              <<{"("}, {"2"}, units, {")"}, {"^"}, {"2", "x", "h", "-"}, {"2"}>>,
              <<{"0", "1", "2", "100"}, units \cup {"m"}, {"="}, {"0", "1", "2", "100"},
                units \cup {"m"}>>,
              <<{"0", "1", "2", "x"}, {"=", "x", "cm"}, {"0", "2", "x", "="},
                {"cm", "x", "2", "0"}, {"cm"}>>}
        \cup {<<FunctionNames \cup {"foo", "x", "cm"}, {"("}, {"2", ")"}>>
                 \o [i \in 1..(2 * (MaxArgs - 1)) |->
                        IF i % 2 = 1 THEN {",", ";", ")"} ELSE {"2"}]
                 \o <<{")"}>>,
              <<{"sin", "sqrt", "circle_area", "log"}, {"("}, {"2", "["},
                {")", "cm", "1", ","}, {")", "/", "]", "2"}, {"m", "h", ")", "cm"},
                {")"}>>}
        \cup {<<{"["}>> \o Chain(MaxCells, {"1", "2"}, {",", ";", "]"}) \o <<{"]"}>>,
              <<{"["}, {"]"}, {"!", "*", "]"}, nums>>}

\* what sympy answers where its computation is not followed: how Eq and
\* simplify decide an equality of expressions, what solve returns, and
\* whether a number compared with a Quantity hands the comparison over to
\* Quantity.__eq__
Answers ==
    [eq : {"true", "false", "undecided"},
     simplify : {"true", "false", "undecided"},
     solve : {[raised |-> "NotImplementedError", solutions |-> <<>>]}
               \cup {[raised |-> "none", solutions |-> [i \in 1..n |-> Symbolic]] :
                       n \in 0..MaxSolutions},
     reflected : BOOLEAN]
NoAnswers == [eq |-> "none"]

\* nothing parsed or rendered yet, nothing evaluated yet
NoTree == [st |-> "none", node |-> Nil, pos |-> 0, err |-> "none", args |-> <<>>]
NoValue == [k |-> "None"]
\* no output controls read, nothing simplified, nothing shown yet
NoControls == [mode |-> "none"]
NoDisplay == controls = NoControls /\ simplified = {} /\ shown = <<>>

Init ==
    /\ pc = "input"
    /\ input = <<>>
    /\ tree = NoTree
    /\ value = NoValue
    /\ output = NoTree
    /\ answers = NoAnswers
    /\ NoDisplay
    /\ shape \in Shapes

\* expr = input("> "), one lexeme at a time
Type ==
    /\ pc = "input"
    /\ Len(input) < Len(shape)
    /\ \E t \in shape[Len(input) + 1] : input' = Append(input, t)
    /\ UNCHANGED <<pc, tree, value, shape, output, answers>>
    /\ UNCHANGED display

\* tree = parseexpr.parse(expr); Error and ParseException are printed and
\* the loop goes on, any other exception leaves the loop
Parse ==
    /\ pc = "input"
    /\ tree' = parse(input)
    /\ pc' = IF tree'.st = "ok" THEN "parsed"
             ELSE IF tree'.err \in {"ParseException", "UnknownFunctionError",
                                    "UnknownConstantError", "UnknownUnitError",
                                    "WrongNumberOfArgumentsError",
                                    "VariableLengthRowsError"}
             THEN "error"
             ELSE "crashed"
    /\ UNCHANGED <<input, value, shape, output, answers>>
    /\ UNCHANGED display

\* val = tree.evaluate(); only ValueError (pint's DimensionalityError and
\* sympy's ShapeError are ValueErrors) is caught, any other exception
\* leaves the loop
Evaluate ==
    /\ pc = "parsed"
    /\ IF tree.node.k = "Equality"
       THEN \E o \in Answers :
               /\ value' = Equality_evaluate(tree.node, o)
               /\ answers' = o
       ELSE /\ value' = evaluate(tree.node)
            /\ answers' = NoAnswers
    /\ pc' = IF value'.k # "Error" THEN "evaluated"
             ELSE IF value'.e \in {"ValueError", "DimensionalityError", "ShapeError"}
             THEN "error"
             ELSE "crashed"
    /\ UNCHANGED <<input, tree, shape, output>>
    /\ UNCHANGED display

\* the next turn of `while True`
Prompt ==
    /\ pc \in {"error", "evaluated"}
    /\ pc' = "input"
    /\ input' = <<>>
    /\ tree' = NoTree
    /\ value' = NoValue
    /\ answers' = NoAnswers
    /\ UNCHANGED <<shape, output>>
    /\ UNCHANGED display

Next ==
    \/ Type
    \/ Parse
    \/ Evaluate
    \/ Prompt

Spec == Init /\ [][Next]_vars

(***************************************************************************)
(* Sessions on prefixed literals: lines  0x / 0o / 0b digits [. digits].   *)
(***************************************************************************)
BaseShapes ==
    LET Digits(n) == [i \in 1..n |-> {"0", "1", "7", "8", "A", "f"}]
    IN  {<<{prefix}>> \o Digits(i) \o <<{"."}>> \o Digits(f) :
           prefix \in {"0x", "0o", "0b"}, i \in 1..MaxDigits, f \in 1..MaxDigits}
        \cup {<<{prefix}>> \o Digits(i) :
                prefix \in {"0x", "0o", "0b"}, i \in 1..MaxDigits}

InitBase ==
    /\ pc = "input"
    /\ input = <<>>
    /\ tree = NoTree
    /\ value = NoValue
    /\ output = NoTree
    /\ answers = NoAnswers
    /\ NoDisplay
    /\ shape \in BaseShapes

SpecBase == InitBase /\ [][Next]_vars

(***************************************************************************)
(* Sessions on roman numerals: a value is rendered as a roman numeral and  *)
(* the numeral is read back as a `0r` literal; or a numeral is typed.      *)
(***************************************************************************)
\* the numerals typed: every string the grammar of romanint admits with the
\* places in canonical subtractive or in additive form, in upper and in
\* lower case
TypedNumerals ==
    LET RomanForms(exponent) ==
            {<<>>} \cup {Sloppy(exponent, i) : i \in 1..9}
                   \cup {Subtractive(exponent, i) : i \in {4, 9}}
        lower(str) ==
            [j \in 1..Len(str) |->
               CASE str[j] = "I" -> "i" [] str[j] = "V" -> "v" [] str[j] = "X" -> "x"
                 [] str[j] = "L" -> "l" [] str[j] = "C" -> "c" [] str[j] = "D" -> "d"
                 [] str[j] = "M" -> "m" [] OTHER -> str[j]]
        proper == {Rep("M", t) \o h \o d \o o :
                     t \in 0..4, h \in RomanForms(2), d \in RomanForms(1),
                     o \in RomanForms(0)} \ {<<>>}
    IN  proper \cup {lower(n) : n \in proper}

\* the values rendered
RomanProbeValues ==
    {Number(n) : n \in (-RomanProbe)..RomanProbe}
    \cup {Float(n, 1) : n \in {-5000, -4999, -14, 0, 14, 4999, 5000}}
    \cup {Float(n, 2) : n \in {-29, 1, 29, 9999}}
    \cup {PyFloat(n, 1) : n \in {-14, 0, 14, 5000}}
    \cup {PyFloat(n, 2) : n \in {-29, 1, 5, 10001}}
    \cup {Rational(n, d) : n \in {-29, 1, 29, 9999}, d \in {2, 3}}
    \cup {Symbolic, Big}

InitRoman ==
    /\ tree = NoTree
    /\ output = NoTree
    /\ answers = NoAnswers
    /\ NoDisplay
    /\ shape = <<>>
    /\ \/ pc = "evaluated" /\ input = <<>> /\ value \in RomanProbeValues
       \/ pc = "input" /\ value = NoValue
          /\ input \in {<<"0r">> \o n : n \in TypedNumerals}

\* Result rendering with NumeralSystem.roman: RomanInt.int_to_roman(number)
Render ==
    /\ pc = "evaluated"
    /\ output' = int_to_roman(value)
    /\ pc' = "rendered"
    /\ UNCHANGED <<input, tree, value, shape, answers>>
    /\ UNCHANGED display

\* the rendered numeral is entered as the next line: `0r` in front of the
\* letters, after the minus sign if there is one
ReadBack ==
    /\ pc = "rendered"
    /\ output.st = "ok"
    /\ input' = IF output.node # <<>> /\ output.node[1] = "-"
                THEN <<"-", "0r">> \o Tail(output.node)
                ELSE <<"0r">> \o output.node
    /\ pc' = "input"
    /\ tree' = NoTree
    /\ UNCHANGED <<value, shape, output, answers>>
    /\ UNCHANGED display

NextRoman ==
    \/ Parse
    \/ Evaluate
    \/ Render
    \/ ReadBack

SpecRoman == InitRoman /\ [][NextRoman]_vars

(***************************************************************************)
(* The interface of Quantity: its operators and methods are applied, one   *)
(* after the other, to a value and operands that are Quantities and plain  *)
(* numbers.  Here `shape` counts the operations applied so far.            *)
(***************************************************************************)
\* the operands: plain numbers and Quantities, one of them dimensionless
Operand ==
    {Number(0), Number(2), Rational(-1, 2)}
    \cup {Quantity(Number(2), NoUnits), Quantity(Number(-3), UnitValue("cm").units),
          UnitValue("m"), Quantity(Rational(1, 2), UnitValue("h").units)}

\* the units converted to
TargetUnits == {UnitValue(n).units : n \in {"m", "cm", "h"}} \cup {NoUnits}

\* Quantity.__abs__ (the second definition, the one in force): pint takes
\* abs of the magnitude
Quantity_abs(q) ==
    Quantity(IF IsReal(q.magnitude) /\ q.magnitude.n < 0
             THEN NumNeg(q.magnitude) ELSE q.magnitude, q.units)

\* Quantity.evalf: the magnitude as a sympy.Float
Quantity_evalf(q) ==
    Quantity(IF IsNumber(q.magnitude) THEN Float(q.magnitude.n, q.magnitude.d)
             ELSE q.magnitude, q.units)

\* Quantity.replace_magnitude: pint takes any value for the magnitude and
\* sympify leaves a Quantity as it is
replace_magnitude(q, new_magnitude) == Quantity(new_magnitude, q.units)

\* a Quantity whose magnitude is a Quantity; its arithmetic is not followed
Nested(v) == IsQuantity(v) /\ IsQuantity(v.magnitude)

InitQuantity ==
    /\ pc = "quantity"
    /\ value \in Operand
    /\ shape = 0
    /\ input = <<>>
    /\ tree = NoTree
    /\ output = NoTree
    /\ answers = NoAnswers
    /\ NoDisplay

\* the outcome r of an operation replaces the value; an exception leaves it
Becomes(r) ==
    /\ pc = "quantity"
    /\ shape < MaxOps
    /\ ~Nested(value)
    /\ value' = IF r.k = "Error" THEN value ELSE r
    /\ shape' = shape + 1
    /\ UNCHANGED <<pc, input, tree, output, answers>>
    /\ UNCHANGED display

\* value + other, other + value
Quantity_add == \E other \in Operand : \E r \in {ValAdd(value, other), ValAdd(other, value)} : Becomes(r)
\* value - other, other - value
Quantity_sub ==
    \E other \in Operand :
       \E r \in {ValAdd(value, ValNeg(other)), ValAdd(other, ValNeg(value))} : Becomes(r)
\* value * other, other * value
Quantity_mul == \E other \in Operand : \E r \in {ValMul(value, other), ValMul(other, value)} : Becomes(r)
\* value / other, other / value
Quantity_truediv == \E other \in Operand : \E r \in {ValDiv(value, other), ValDiv(other, value)} : Becomes(r)
\* value ** other, other ** value
Quantity_pow == \E other \in Operand : \E r \in {ValPow(value, other), ValPow(other, value)} : Becomes(r)
\* abs(value)
AbsOf == IsQuantity(value) /\ Becomes(Quantity_abs(value))
\* value.evalf()
Evalf == IsQuantity(value) /\ Becomes(Quantity_evalf(value))
\* value.replace_magnitude(new_magnitude)
ReplaceMagnitude ==
    /\ IsQuantity(value)
    /\ \E new_magnitude \in Operand : Becomes(replace_magnitude(value, new_magnitude))
\* value.convert_to(unit)
ConvertTo == IsQuantity(value) /\ \E unit \in TargetUnits : Becomes(convert_to(value, unit))

NextQuantity ==
    \/ Quantity_add
    \/ Quantity_sub
    \/ Quantity_mul
    \/ Quantity_truediv
    \/ Quantity_pow
    \/ AbsOf
    \/ Evalf
    \/ ReplaceMagnitude
    \/ ConvertTo

SpecQuantity == InitQuantity /\ [][NextQuantity]_vars

(***************************************************************************)
(* Rendering: Result.as_html and the output widget.  A rendered text is a  *)
(* sequence of pieces: single characters where the code looks at           *)
(* characters (digits, signs, the point), whole tags and names otherwise.  *)
(***************************************************************************)
\* NumeralSystem: the values of the enumeration are the bases
NumeralSystem(name) ==
    CASE name = "binary" -> 2 [] name = "octal" -> 8 [] name = "decimal" -> 10
      [] name = "hexadecimal" -> 16 [] name = "roman" -> 1001

\* Result._hex_lookup, and the digits bin, oct and hex write
hex_lookup == <<"0", "1", "2", "3", "4", "5", "6", "7", "8", "9",
                "A", "B", "C", "D", "E", "F">>
lower_digits == <<"0", "1", "2", "3", "4", "5", "6", "7", "8", "9",
                  "a", "b", "c", "d", "e", "f">>

\* the digits of a natural number in a base, most significant first
RECURSIVE DigitsOf(_, _)
DigitsOf(n, b) == IF n < b THEN <<n>> ELSE Append(DigitsOf(n \div b, b), n % b)

\* str(i) of an int: the sign and the decimal digits
str_int(i) ==
    LET chars(ds) == [j \in 1..Len(ds) |-> lower_digits[ds[j] + 1]]
    IN  (IF i < 0 THEN <<"-">> ELSE <<>>) \o chars(DigitsOf(Abs(i), 10))

\* Result._base_conv[base]: bin, oct, hex of an int
base_conv(base, i) ==
    LET chars(ds) == [j \in 1..Len(ds) |-> lower_digits[ds[j] + 1]]
        prefix == CASE base = "binary" -> "0b" [] base = "octal" -> "0o"
                    [] base = "hexadecimal" -> "0x"
    IN  (IF i < 0 THEN <<"-">> ELSE <<>>) \o <<prefix>>
          \o chars(DigitsOf(Abs(i), NumeralSystem(base)))

\* the loop of _to_other_base: the list l of the integer part and the
\* digits after the point
RECURSIVE Expand(_, _, _, _, _, _)
Expand(numerator, denominator, b, i, digits, l) ==
    IF i > digits + 1 THEN l
    ELSE LET next(l2, numerator2) ==
                 IF numerator2 = 0 THEN l2
                 ELSE Expand(numerator2, denominator, b, i + 1, digits, l2)
         IN  next(Append(l, numerator \div denominator), (numerator % denominator) * b)

\* Result._to_other_base(obj, base, digits): obj is the rational
\* obj.n / obj.d; r, read back from 10 * digits decimal digits of it, has
\* the same first digits + 1 digits in the base for the numbers rendered
\* here and is taken as obj itself; the last digit kept is raised by
\* l[-1] // ceil(b / 2); a digit of 16 is no index of _hex_lookup
to_other_base(obj, base, digits) ==
    LET b == NumeralSystem(base)
        rounded(l) ==
            IF Len(l) > digits + 1
            THEN [j \in 1..(Len(l) - 1) |->
                    IF j = Len(l) - 1 THEN l[j] + l[Len(l)] \div ((b + 1) \div 2) ELSE l[j]]
            ELSE l
        text(l) ==
            IF Len(l) = 1
            THEN Ok((IF obj.n < 0 THEN <<"-">> ELSE <<>>) \o base_conv(base, l[1]), 0)
            ELSE IF \E j \in 2..Len(l) : l[j] >= Len(hex_lookup)
            THEN Raise("IndexError")
            ELSE Ok((IF obj.n < 0 THEN <<"-">> ELSE <<>>)
                      \o base_conv(base, l[1]) \o <<".">>
                      \o [j \in 1..(Len(l) - 1) |-> hex_lookup[l[j + 1] + 1]], 0)
    IN  IF obj.k = "Number" /\ obj.d = 1 THEN Ok(base_conv(base, obj.n), 0)
        ELSE text(rounded(Expand(Abs(obj.n), obj.d, b, 0, digits, <<>>)))

\* the decimal exponent of the positive rational n / d
RECURSIVE Exp10(_, _)
Exp10(n, d) ==
    IF n >= 10 * d THEN Exp10(n, 10 * d) + 1
    ELSE IF n < d THEN Exp10(10 * n, d) - 1
    ELSE 0

\* str(number.evalf(n=dps)) of a number that is not zero: mpmath's to_str
\* as sympy's printer calls it (no zeros stripped).  The digits are cut
\* after dps + 3 places and rounded to dps places, half up; the notation
\* is fixed for a decimal exponent between min_fixed and max_fixed
to_str(num, dps) ==
    IF num.n = 0 THEN <<"0", ".", "0">> ELSE
    LET n == Abs(num.n)
        d == num.d
        chars(ds) == [j \in 1..Len(ds) |-> lower_digits[ds[j] + 1]]
        sign == IF num.n < 0 THEN <<"-">> ELSE <<>>
        \* to_digits_exp(s, dps + 3)
        floor(e) ==
            IF dps + 2 - e >= 0 THEN (n * IntPow(10, dps + 2 - e)) \div d
            ELSE n \div (d * IntPow(10, e - dps - 2))
        layout(digits, exponent) ==
            IF -5 < exponent /\ exponent < dps
            THEN IF exponent < 0
                 THEN <<"0", ".">> \o Rep("0", -exponent - 1) \o chars(digits)
                 ELSE chars(SubSeq(digits, 1, exponent + 1)) \o <<".">>
                        \o chars(SubSeq(digits, exponent + 2, Len(digits)))
            ELSE <<lower_digits[digits[1] + 1], ".">> \o chars(Tail(digits))
                   \o (IF exponent >= 0 THEN <<"e", "+">> ELSE <<"e">>)
                   \o str_int(exponent)
        round(cut, exponent) ==
            IF (cut \div 100) % 10 >= 5
            THEN IF cut \div 1000 + 1 = IntPow(10, dps)
                 THEN layout(DigitsOf(IntPow(10, dps - 1), 10), exponent + 1)
                 ELSE layout(DigitsOf(cut \div 1000 + 1, 10), exponent)
            ELSE layout(DigitsOf(cut \div 1000, 10), exponent)
        digits_exp(e) == round(floor(e), e)
    IN  sign \o digits_exp(Exp10(n, d))

\* the text before and after the first piece c (all of it and nothing
\* when there is none)
Before(text, c) ==
    IF \E j \in 1..Len(text) : text[j] = c
    THEN SubSeq(text, 1, (CHOOSE j \in 1..Len(text) :
                            text[j] = c /\ \A i \in 1..(j - 1) : text[i] # c) - 1)
    ELSE text
After(text, c) ==
    IF \E j \in 1..Len(text) : text[j] = c
    THEN SubSeq(text, (CHOOSE j \in 1..Len(text) :
                         text[j] = c /\ \A i \in 1..(j - 1) : text[i] # c) + 1, Len(text))
    ELSE <<>>
\* str.rstrip and str.lstrip
RECURSIVE rstrip(_, _)
rstrip(text, S) ==
    IF text # <<>> /\ text[Len(text)] \in S
    THEN rstrip(SubSeq(text, 1, Len(text) - 1), S) ELSE text
RECURSIVE lstrip(_, _)
lstrip(text, S) == IF text # <<>> /\ Head(text) \in S THEN lstrip(Tail(text), S) ELSE text

\* Result._integer_as_html
integer_as_html(num, numeral_system, digits) ==
    IF numeral_system = "decimal" THEN Ok(str_int(num.n), 0)
    ELSE IF numeral_system = "roman" THEN int_to_roman(num)
    ELSE to_other_base(num, numeral_system, digits)

\* Result._decimal_as_html for a finite number that is not zero
decimal_as_html(num, numeral_system, digits, allow_sup, is_base) ==
    LET \* Fix ugliness, Parentheses, Print exponent-part
        fixed(pre1, pre2, exp) ==
            LET pre == IF pre2 # <<>> THEN pre1 \o <<".">> \o pre2 ELSE pre1
                par == is_base /\ ((exp # <<>> /\ allow_sup) \/ Head(pre) = "-")
                lpar == IF par THEN <<"(">> ELSE <<>>
                rpar == IF par THEN <<")">> ELSE <<>>
            IN  IF exp = <<>> THEN lpar \o pre \o rpar
                ELSE IF allow_sup
                THEN lpar \o pre \o <<"U+00B7", "10", "<sup>">> \o exp \o <<"</sup>">> \o rpar
                ELSE lpar \o pre \o <<"e">> \o exp \o rpar
        split(f) ==
            fixed(Before(Before(f, "e"), "."), rstrip(After(Before(f, "e"), "."), {"0"}),
                  lstrip(After(f, "e"), {"+", "0"}))
    IN  IF numeral_system = "decimal" THEN Ok(split(to_str(num, digits)), 0)
        ELSE IF numeral_system = "roman" THEN int_to_roman(num)
        ELSE to_other_base(num, numeral_system, digits)

\* sympy expressions: a Symbol, the atoms that are no rationals and no
\* floats (I, zoo, oo, -oo, nan, E, pi), sums, products, powers and RootOf
\* (a root known by its value only)
Symbol(name) == [k |-> "Symbol", name |-> name]
Atom(name) == [k |-> "Atom", name |-> name]
Add(args) == [k |-> "Add", args |-> args]
Mul(args) == [k |-> "Mul", args |-> args]
Pow(b, e) == [k |-> "Pow", args |-> <<b, e>>]
RootOf(n, d) == [k |-> "RootOf", n |-> n, d |-> d]

\* Result.__unicode_fractions: the glyph of a rational that has one
unicode_fractions(n, d) ==
    CASE <<n, d>> = <<1, 2>> -> "U+00BD" [] <<n, d>> = <<1, 3>> -> "U+2153"
      [] <<n, d>> = <<1, 4>> -> "U+00BC" [] <<n, d>> = <<1, 5>> -> "U+2155"
      [] <<n, d>> = <<1, 6>> -> "U+2159" [] <<n, d>> = <<1, 7>> -> "U+2150"
      [] <<n, d>> = <<1, 8>> -> "U+215B" [] <<n, d>> = <<1, 9>> -> "U+2151"
      [] <<n, d>> = <<1, 10>> -> "U+2152" [] <<n, d>> = <<2, 3>> -> "U+2154"
      [] <<n, d>> = <<3, 4>> -> "U+00BE" [] <<n, d>> = <<2, 5>> -> "U+2156"
      [] <<n, d>> = <<3, 5>> -> "U+2157" [] <<n, d>> = <<4, 5>> -> "U+2158"
      [] <<n, d>> = <<5, 6>> -> "U+215A" [] <<n, d>> = <<3, 8>> -> "U+215C"
      [] <<n, d>> = <<5, 8>> -> "U+215D" [] <<n, d>> = <<7, 8>> -> "U+215E"
      [] OTHER -> ""

\* the first exception among the outcomes, else their texts joined by sep
RECURSIVE JoinTexts(_, _)
JoinTexts(texts, sep) ==
    IF texts = <<>> THEN <<>>
    ELSE IF Len(texts) = 1 THEN texts[1]
    ELSE texts[1] \o sep \o JoinTexts(Tail(texts), sep)
Joined(outs, sep) ==
    IF \E j \in 1..Len(outs) : outs[j].st # "ok"
    THEN outs[CHOOSE j \in 1..Len(outs) :
                 outs[j].st # "ok" /\ \A i \in 1..(j - 1) : outs[i].st = "ok"]
    ELSE Ok(JoinTexts([j \in 1..Len(outs) |-> outs[j].node], sep), 0)
\* the text of an outcome between two texts
Around(pre, out, post) == IF out.st # "ok" THEN out ELSE Ok(pre \o out.node \o post, 0)

\* "{:~H}".format(u), lstripped: pint's HTML of the units, the names with a
\* positive exponent, then "/" and those with a negative one; an exponent
\* other than 1 is set in <sup>
UnitsHtml(names, exps) ==
    LET power(j, e) ==
            IF e = 1 THEN <<names[j]>>
            ELSE <<names[j], "<sup>">> \o str_int(e) \o <<"</sup>">>
        pos == SelectSeq([j \in 1..Len(names) |-> j], LAMBDA j : exps[names[j]] > 0)
        neg == SelectSeq([j \in 1..Len(names) |-> j], LAMBDA j : exps[names[j]] < 0)
        num == JoinTexts([i \in 1..Len(pos) |-> power(pos[i], exps[names[pos[i]]])], <<" ">>)
        den == JoinTexts([i \in 1..Len(neg) |-> power(neg[i], -exps[names[neg[i]]])], <<" ">>)
    IN  IF pos = <<>> /\ neg = <<>> THEN <<"dimensionless">>
        ELSE IF neg = <<>> THEN num
        ELSE (IF pos = <<>> THEN <<"1">> ELSE num) \o <<"/">>
               \o (IF Len(neg) > 1 THEN <<"(">> \o den \o <<")">> ELSE den)

\* Result._atom_as_html
atom_as_html(atom, mode, numeral_system, digits, allow_sup, is_base) ==
    CASE atom.name = "I" -> Ok(<<"i">>, 0)
      [] atom.name = "zoo" -> Ok(<<"zU+221E">>, 0)
      [] atom.name = "oo" -> Ok(<<"U+221E">>, 0)
      [] atom.name = "-oo" -> Ok(IF is_base THEN <<"(", "-", "U+221E", ")">> ELSE <<"-", "U+221E">>, 0)
      [] atom.name = "nan" -> Ok(<<"NaN">>, 0)
      [] OTHER ->
           IF mode = "to_float"
           THEN decimal_as_html(IF atom.name = "pi" THEN Float(3927, 1250)
                                ELSE Float(1359, 500),
                                numeral_system, digits, allow_sup, is_base)
           ELSE IF mode # "try_exact" THEN Raise("RuntimeError")
           ELSE Ok(IF atom.name = "pi" THEN <<"U+03C0">> ELSE <<"e">>, 0)

\* the print context: how deep in exponents, and the surrounding operation
Context(is_exponent, surrounding_op) ==
    [is_exponent |-> is_exponent, surrounding_op |-> surrounding_op]

\* the sum put together from the texts of its summands, avoiding "1 + -1"
RECURSIVE the_sum(_)
the_sum(summands) ==
    IF Len(summands) = 1 THEN summands[1]
    ELSE LET last == summands[Len(summands)]
             front == the_sum(SubSeq(summands, 1, Len(summands) - 1))
         IN  IF last # <<>> /\ Head(last) = "-" THEN front \o <<" - ">> \o Tail(last)
             ELSE IF last # <<>> /\ Head(last) = "+" THEN front \o <<" + ">> \o Tail(last)
             ELSE front \o <<" + ">> \o last

\* the condition of the Add branch with the nesting of exponents left out
Add_parenthesized_flat(context) ==
    context.surrounding_op \in {"multiplication", "exp_base"}

\* the Add branch of printer: when the sum is put in parentheses
Add_parenthesized(context) ==
    \/ context.surrounding_op \in {"multiplication", "exp_base"}
    \/ context.surrounding_op = "exp_exp" /\ context.is_exponent > 1

\* printer(expr, context) of Result._as_html under the settings s (mode,
\* numeral_system, digits, units)
RECURSIVE printer(_, _, _)
printer(ex, context, s) ==
    LET exp_base == context.surrounding_op = "exp_base"
        deep == context.surrounding_op = "exp_exp" /\ context.is_exponent > 1
        ctxt(op) == Context(context.is_exponent, op)
        par(cond, out) == IF cond THEN Around(<<"(">>, out, <<")">>) ELSE out
        \* the Quantity branch
        factor(q) ==
            NumMul(NumMul(NumPow(Scale("m"), Number(q.units["m"])),
                          NumPow(Scale("cm"), Number(q.units["cm"]))),
                   NumMul(NumPow(Scale("km"), Number(q.units["km"])),
                          NumPow(Scale("h"), Number(q.units["h"]))))
        times(f, m) ==
            IF f = Number(1) THEN m
            ELSE IF IsReal(m) \/ IsMatrix(m) THEN NumMul(Float(f.n, f.d), m)
            ELSE Mul(<<Float(f.n, f.d), m>>)
        quantity(m, us) ==
            IF us = <<"dimensionless">> THEN printer(m, context, s)
            ELSE par(exp_base \/ deep,
                     Around(<<>>, printer(m, ctxt("multiplication"), s), <<" ">> \o us))
        \* the Rational branch
        fraction(p, q) ==
            IF context.is_exponent > 0
            THEN par(exp_base \/ deep, Joined(<<p, q>>, <<"/">>))
            ELSE par(exp_base,
                     Around(<<"<sup>">>, Joined(<<p, q>>, <<"</sup>", "&frasl;", "<sub>">>),
                            <<"</sub>">>))
        \* the Mul branch
        product(args, prefix) ==
            IF args = <<>>
            THEN Ok(IF prefix = -1 /\ exp_base THEN <<"(", "-", "1", ")">>
                    ELSE str_int(prefix), 0)
            ELSE IF prefix = -1
            THEN IF exp_base
                 THEN Around(<<"(", "-">>,
                             Joined([j \in 1..Len(args) |->
                                       printer(args[j], ctxt("multiplication"), s)],
                                    <<" U+00B7 ">>), <<")">>)
                 ELSE Around(<<"-">>,
                             Joined([j \in 1..Len(args) |->
                                       printer(args[j], ctxt("multiplication"), s)],
                                    <<" U+00B7 ">>), <<>>)
            ELSE par(exp_base \/ deep,
                     Joined([j \in 1..Len(args) |->
                               printer(args[j], ctxt("multiplication"), s)], <<" U+00B7 ">>))
        \* factor == -1 or factor == 1
        unit(v) == IsReal(v) /\ Abs(v.n) = v.d
        \* the Add branch
        sum(summands) ==
            IF \E j \in 1..Len(summands) : summands[j].st # "ok"
            THEN Joined(summands, <<>>)
            ELSE par(Add_parenthesized(context),
                     Ok(the_sum([j \in 1..Len(summands) |-> summands[j].node]), 0))
        \* the ImmutableMatrix branch
        cell(row, j) ==
            Around(<<IF j < Len(row) THEN "<td style=\"padding-right:15px;\">" ELSE "<td>">>,
                   printer(row[j], ctxt("none"), s), <<"</td>">>)
        line(rows, i) ==
            Around(<<"<tr><td>",
                     IF Len(rows) = 1 THEN "[" ELSE IF i = 1 THEN "U+23A1"
                     ELSE IF i = Len(rows) THEN "U+23A3" ELSE "U+23A2">>,
                   Joined([j \in 1..Len(rows[i]) |-> cell(rows[i], j)], <<>>),
                   <<"<td>",
                     IF Len(rows) = 1 THEN "]" ELSE IF i = 1 THEN "U+23A4"
                     ELSE IF i = Len(rows) THEN "U+23A6" ELSE "U+23A5",
                     "</td></tr>">>)
        html_table(rows) ==
            Around(<<"<table border=\"0\" cellspacing=\"0\" style=\"float:right;\">">>,
                   Joined([i \in 1..Len(rows) |-> line(rows, i)], <<>>), <<"</table>">>)
    IN  CASE ex.k = "Symbol" -> Ok(<<"<i>", ex.name, "</i>">>, 0)
          [] ex.k = "Quantity" ->
               IF s.units = "none"
               THEN quantity(ex.magnitude,
                             UnitsHtml(<<"cm", "h", "km", "m">>, ex.units))
               ELSE IF s.units = "to_base"
               THEN quantity(times(factor(ex), ex.magnitude),
                             UnitsHtml(<<"m", "s">>,
                                       [n \in {"m", "s"} |->
                                          IF n = "m" THEN Dimension(ex.units).length
                                          ELSE Dimension(ex.units).time]))
               ELSE IF s.units = "to_best" THEN Raise("ValueError")
               ELSE Raise("RuntimeError")
          [] ex.k = "Float" ->
               decimal_as_html(ex, s.numeral_system, s.digits,
                               context.is_exponent = 0, exp_base)
          [] ex.k = "Number" /\ ex.d = 1 ->
               par(exp_base /\ ex.n < 0, integer_as_html(ex, s.numeral_system, s.digits))
          [] ex.k = "Number" /\ ex.d # 1 ->
               IF s.mode = "to_float"
               THEN decimal_as_html(ex, s.numeral_system, s.digits,
                                    context.is_exponent = 0, exp_base)
               ELSE IF unicode_fractions(Abs(ex.n), ex.d) # ""
               THEN Ok((IF ex.n < 0 THEN <<"-">> ELSE <<>>)
                         \o <<unicode_fractions(Abs(ex.n), ex.d)>>, 0)
               ELSE fraction(integer_as_html(Number(ex.n), s.numeral_system, s.digits),
                             integer_as_html(Number(ex.d), s.numeral_system, s.digits))
          [] ex.k = "Atom" ->
               atom_as_html(ex, s.mode, s.numeral_system, s.digits,
                            context.is_exponent = 0, exp_base)
          [] ex.k = "Add" ->
               sum([j \in 1..Len(ex.args) |-> printer(ex.args[j], ctxt("addition"), s)])
          [] ex.k = "Mul" ->
               product(SelectSeq(ex.args, LAMBDA f : ~unit(f)),
                       IF Cardinality({j \in 1..Len(ex.args) :
                                         unit(ex.args[j]) /\ ex.args[j].n < 0}) % 2 = 1
                       THEN -1 ELSE 1)
          [] ex.k = "Pow" ->
               par(exp_base,
                   Joined(<<printer(ex.args[1], ctxt("exp_base"), s),
                            IF context.is_exponent > 0
                            THEN Around(<<"^">>,
                                        printer(ex.args[2],
                                                Context(context.is_exponent + 1, "exp_exp"),
                                                s), <<>>)
                            ELSE Around(<<"<sup>">>,
                                        printer(ex.args[2],
                                                Context(context.is_exponent + 1, "exp_exp"),
                                                s), <<"</sup>">>)>>, <<>>))
          [] ex.k = "Applied" ->
               Around(<<ex.fn, "(">>,
                      Joined([j \in 1..Len(ex.args) |->
                                printer(ex.args[j], ctxt("function_call"), s)], <<", ">>),
                      <<")">>)
          [] ex.k = "ImmutableMatrix" ->
               IF Len(ex.data) = 1 /\ Len(ex.data[1]) = 1
               THEN printer(ex.data[1][1], context, s)
               ELSE IF Len(ex.data) = 1
               THEN html_table([i \in 1..Len(ex.data[1]) |-> <<ex.data[1][i]>>])
               ELSE html_table(ex.data)
          [] ex.k = "RootOf" ->
               decimal_as_html(Float(ex.n, ex.d), s.numeral_system, s.digits,
                               context.is_exponent = 0, exp_base)
          [] OTHER -> Raise("RuntimeError")

\* expr.evalf(n): the numbers of an expression as floats; the exponent of
\* a power stays an integer, the sign of a product stays -1, a Quantity
\* inside an expression stays as it is
RECURSIVE evalf(_)
evalf(ex) ==
    CASE ex.k = "Number" -> Float(ex.n, ex.d)
      [] ex.k = "RootOf" -> Float(ex.n, ex.d)
      [] ex.k = "Atom" ->
           IF ex.name = "pi" THEN Float(3927, 1250)
           ELSE IF ex.name = "E" THEN Float(1359, 500)
           ELSE ex
      [] ex.k = "Add" -> Add([j \in 1..Len(ex.args) |-> evalf(ex.args[j])])
      [] ex.k = "Mul" ->
           Mul([j \in 1..Len(ex.args) |->
                  IF ex.args[j] = Number(-1) THEN ex.args[j] ELSE evalf(ex.args[j])])
      [] ex.k = "Pow" ->
           Pow(evalf(ex.args[1]),
               IF IsNumber(ex.args[2]) /\ ex.args[2].d = 1 THEN ex.args[2]
               ELSE evalf(ex.args[2]))
      [] ex.k = "Applied" -> Applied(ex.fn, [j \in 1..Len(ex.args) |-> evalf(ex.args[j])])
      [] ex.k \in {"ImmutableMatrix", "MatrixValue"} ->
           [ex EXCEPT !.data = [r \in DOMAIN ex.data |->
                                  [c \in DOMAIN ex.data[r] |-> evalf(ex.data[r][c])]]]
      [] OTHER -> ex

\* the output controls: mode, numeral system, digits and unit mode
Controls ==
    [mode : {"try_exact", "to_float"},
     numeral_system : {"binary", "octal", "decimal", "hexadecimal", "roman"},
     digits : 1..MaxPrecision,
     units : {"none", "to_base", "to_best"}]

\* the answer of simplify() that is the expression itself
Unchanged == [k |-> "unchanged"]

\* self.__simplified: the pairs of an expression and its simplified form
Cached(cache, raw_result) == \E p \in cache : p[1] = raw_result
Lookup_simplified(cache, raw_result) == (CHOOSE p \in cache : p[1] = raw_result)[2]

\* what a call of _as_html leaves: the text or the exception, and the cache
Rendered(out, cache) == [out |-> out, cache |-> cache]

\* the branch for Mode.try_exact that prints the simplified expression
\* the first time and keeps the expression itself in the cache
try_exact_stale(raw_result, s, cache, o) ==
    IF raw_result.k = "MatrixValue" THEN Rendered(Raise("TypeError"), cache)
    ELSE IF Cached(cache, raw_result)
    THEN Rendered(printer(Lookup_simplified(cache, raw_result), Context(0, "none"), s),
                  cache)
    ELSE Rendered(printer(IF o.simplify = Unchanged THEN raw_result ELSE o.simplify,
                          Context(0, "none"), s),
                  cache \cup {<<raw_result, raw_result>>})

\* the branch of _as_html for Mode.try_exact: the cache is tried first (a
\* mutable matrix cannot be a key), else raw_result.simplify() is stored,
\* and what the cache holds is printed; o.simplify is what simplify returns
try_exact(raw_result, s, cache, o) ==
    LET print(filled) ==
            Rendered(printer(Lookup_simplified(filled, raw_result), Context(0, "none"), s),
                     filled)
    IN  IF raw_result.k = "MatrixValue" THEN Rendered(Raise("TypeError"), cache)
        ELSE IF Cached(cache, raw_result) THEN print(cache)
        ELSE print(cache \cup {<<raw_result,
                                 IF o.simplify = Unchanged THEN raw_result
                                 ELSE o.simplify>>})

\* Result._as_html of one expression (no bool, Solutions or Equality)
as_html_expression(raw_result, s, cache, o) ==
    IF raw_result.k \in {"Number", "Float"}
    THEN Rendered(printer(raw_result, Context(0, "none"), s), cache)
    ELSE IF s.mode = "to_float"
    THEN Rendered(printer(IF IsQuantity(raw_result) THEN Quantity_evalf(raw_result)
                          ELSE evalf(raw_result), Context(0, "none"), s), cache)
    ELSE IF s.mode = "try_exact" THEN try_exact(raw_result, s, cache, o)
    ELSE Rendered(Raise("RuntimeError"), cache)

\* the rows of the table of solutions, one call of _as_html after the other
RECURSIVE as_html_solutions(_, _, _, _, _)
as_html_solutions(x, solutions, s, cache, o) ==
    IF solutions = <<>> THEN Rendered(Ok(<<>>, 0), cache)
    ELSE LET rest(first) ==
                 LET others(r) ==
                         Rendered(Joined(<<Around(<<"<tr><td><i>", x, "</i> = </td><td>">>,
                                                  first.out, <<"</td></tr>">>), r.out>>,
                                         <<>>), r.cache)
                 IN  IF first.out.st # "ok" THEN first
                     ELSE others(as_html_solutions(x, Tail(solutions), s, first.cache, o))
         IN  rest(as_html_expression(Head(solutions), s, cache, o))

\* Result._as_html(raw_result, mode, numeral_system, digits, units)
as_html_raw(raw_result, s, cache, o) ==
    LET html_table(rows) ==
            Rendered(Around(<<"<table border=\"0\" style=\"float:right;\">">>, rows.out,
                            <<"</table>">>), rows.cache)
        html_equality(lhs) ==
            LET both(rhs) == Rendered(Joined(<<lhs.out, rhs.out>>, <<" = ">>), rhs.cache)
            IN  IF lhs.out.st # "ok" THEN lhs
                ELSE both(as_html_expression(raw_result.rhs, s, lhs.cache, o))
    IN  IF raw_result.k = "Bool"
        THEN Rendered(Ok(<<IF raw_result.v THEN "true" ELSE "false">>, 0), cache)
        ELSE IF raw_result.k = "Solutions"
        THEN html_table(as_html_solutions(raw_result.x, raw_result.solutions, s, cache, o))
        ELSE IF raw_result.k = "Eq"
        THEN html_equality(as_html_expression(raw_result.lhs, s, cache, o))
        ELSE as_html_expression(raw_result, s, cache, o)

\* Result.as_html: every "-" of the text becomes the minus sign U+2212
as_html(raw_result, s, cache, o) ==
    LET replace(piece) ==
            CASE piece = "-" -> UMINUS
              [] piece = " - " -> " U+2212 "
              [] piece = "<td style=\"padding-right:15px;\">" ->
                   "<td style=\"paddingU+2212right:15px;\">"
              [] OTHER -> piece
        retval(r) ==
            IF r.out.st # "ok" THEN r
            ELSE Rendered(Ok([j \in 1..Len(r.out.node) |-> replace(r.out.node[j])], 0),
                          r.cache)
    IN  retval(as_html_raw(raw_result, s, cache, o))

\* what a call of update_output leaves in the output field: a text in a
\* style, or nothing new and the exception in a dialog box
Shown(style, text) == [k |-> "Shown", style |-> style, text |-> text]
exception_box(e) == [k |-> "exception_box", e |-> e]

\* the expressions rendered: atoms, and sums, products, powers and calls
\* of them as sympy keeps them (numbers first in a sum and in a product,
\* no power of two numbers, a Quantity in an exponent only inside a sum
\* or as the base of a power)
RawResults ==
    LET x == Symbol("x")
        y == Symbol("y")
        cm2 == Quantity(Number(1), [u \in UnitNames |-> IF u = "cm" THEN 2 ELSE 0])
        speed == Quantity(Number(2), [u \in UnitNames |->
                                        IF u = "m" THEN 1 ELSE IF u = "h" THEN -1 ELSE 0])
        numbers == {Number(2), Number(-3), Number(5000), Rational(1, 2), Rational(-1, 2),
                    Rational(2, 11), Rational(-2, 11), Rational(7, 8), Rational(255, 256),
                    Float(3, 2), Float(-3, 2), Float(2500, 1), Float(-2500, 1)}
        atoms == {x, Atom("oo"), Atom("-oo"), Atom("I"), Atom("pi"), Atom("zoo")}
        sums == {Add(<<Number(2), x>>), Add(<<x, y>>), Add(<<x, Mul(<<Number(-1), y>>)>>),
                 Add(<<Rational(-2, 11), x>>)}
        products == {Mul(<<Number(2), x>>), Mul(<<Number(-1), x>>), Mul(<<x, y>>),
                     Mul(<<Float(-3, 2), x>>)}
        powers == {Pow(b, x) : b \in numbers \cup {y, Atom("-oo")}}
                  \cup {Pow(x, e) : e \in numbers \cup {y, Atom("I")}}
        calls == {Applied("sin", <<x>>)}
        flat == sums \cup products \cup powers \cup calls
        nested == {Pow(x, t) : t \in flat} \cup {Pow(t, x) : t \in flat}
                  \cup {Mul(<<x, t>>) : t \in sums \cup powers}
                  \cup {Add(<<x, t>>) : t \in products \cup powers}
                  \cup {Applied("sin", <<t>>) : t \in sums \cup powers}
        deep == {Pow(x, Pow(y, t)) :
                   t \in sums \cup products
                         \cup {Rational(2, 11), Rational(1, 2), Float(2500, 1), Number(-3),
                               Pow(x, Number(2)), x}}
        quantities == {Quantity(m, u.units) :
                         m \in {Number(1), Number(-3), Float(3, 2), x, Add(<<Number(2), x>>),
                                Pow(x, Number(2)), ImmutableMatrix(<<<<Number(1), x>>>>)},
                         u \in {UnitValue("cm"), cm2, speed, Quantity(Number(1), NoUnits)}}
        with_units == {Pow(cm2, x), Pow(x, Add(<<x, cm2>>)), Pow(Number(2), Pow(cm2, x)),
                       Add(<<x, speed>>), Mul(<<x, Pow(UnitValue("cm"), y)>>)}
        plain == numbers \cup atoms \cup flat \cup nested \cup deep \cup quantities
                 \cup with_units \cup {RootOf(3, 2)}
    IN  plain
        \cup {Bool(TRUE), Bool(FALSE), MatrixValue(<<<<Number(1), Number(2)>>>>),
              Solutions("x", <<Number(2), Rational(-2, 11)>>),
              Solutions("x", <<Add(<<Number(2), y>>), Pow(y, Rational(1, 2))>>),
              Solutions("x", <<Number(5000), y>>),
              Eq(Add(<<x, y>>), Pow(x, y)), Eq(Pow(x, Rational(2, 11)), Number(-3))}

\* what raw_result.simplify() returns where it is not followed: the
\* expression unchanged, or another expression
SimplifyAnswers ==
    {Unchanged, Symbol("x"), Add(<<Number(2), Symbol("x")>>),
     Pow(Symbol("x"), Rational(-1, 2))}

InitResult ==
    /\ pc = "result"
    /\ value \in RawResults \cup {Error("ParseException"), Error("ValueError"), NoValue}
    /\ controls \in Controls
    /\ answers \in [simplify : SimplifyAnswers]
    /\ simplified = {}
    /\ shown = <<>>
    /\ input = <<>>
    /\ tree = NoTree
    /\ output = NoTree
    /\ shape = <<>>

\* OutputWidget.update_output(val, mode, numeral_system, digits, units):
\* an exception that was handed over is shown as an error, no value as an
\* empty text; else val.as_html is called, a ValueError is shown as a
\* printing error, any other exception goes to the dialog box and the
\* method returns
update_output ==
    /\ pc = "result"
    /\ Len(shown) < MaxShows
    /\ IF value.k = "Error"
       THEN /\ shown' = Append(shown, Shown("color: red;",
                                            <<IF value.e = "ValueError" THEN "Value error: "
                                              ELSE "Parsing error: ", value.e>>))
            /\ simplified' = simplified
       ELSE IF value = NoValue
       THEN /\ shown' = Append(shown, Shown("", <<>>))
            /\ simplified' = simplified
       ELSE \E r \in {as_html(value, controls, simplified, answers)} :
               /\ shown' = Append(shown,
                                  IF r.out.st = "ok"
                                  THEN Shown("font-size: x-large; font-family: STIX;",
                                             r.out.node)
                                  ELSE IF r.out.err = "ValueError"
                                  THEN Shown("color: red;", <<"Printing error: ", r.out.err>>)
                                  ELSE exception_box(r.out.err))
               /\ simplified' = r.cache
    /\ UNCHANGED <<pc, input, tree, value, shape, output, answers, controls>>

NextResult == update_output

SpecResult == InitResult /\ [][NextResult]_vars

(***************************************************************************)
(* The identifier of the grammar, character by character.                  *)
(***************************************************************************)
\* the characters words are made of: letters (one of them outside ASCII),
\* a digit, the underscore and a currency symbol
Letters == {"t", "o", "n", "r", "U+00E9"}
WordChars == Letters \cup {"1", "_"}
currency_symbols == {"U+20AC"}
Characters == WordChars \cup currency_symbols

\* a text begins with the characters of a string
StartsWith(text, chars) ==
    Len(text) >= Len(chars) /\ SubSeq(text, 1, Len(chars)) = chars

\* keyword = oneOf("to"): the characters t, o at the place looked at,
\* whatever follows them
keyword_at(text) == StartsWith(text, <<"t", "o">>)

\* the longest run of \w at the start of a text
RECURSIVE WordRun(_)
WordRun(text) ==
    IF text = <<>> \/ Head(text) \notin WordChars THEN <<>>
    ELSE <<Head(text)>> \o WordRun(Tail(text))

\* Regex(r'[^\W\d_]\w*'): a letter, then the longest run of letters, digits
\* and underscores
Regex_identifier(text) ==
    IF text # <<>> /\ Head(text) \in Letters
    THEN Ok(WordRun(text), Len(WordRun(text)))
    ELSE Fail

\* identifier = currency_symbols | ( NotAny( keyword ) + Regex(...) ) at
\* the start of a text: the token and its length, or no match
identifier_at(text) ==
    IF text # <<>> /\ Head(text) \in currency_symbols THEN Ok(<<Head(text)>>, 1)
    ELSE IF keyword_at(text) THEN Fail
    ELSE Regex_identifier(text)

\* the texts handed to identifier
InitLex ==
    /\ pc = "lex"
    /\ input \in UNION {[1..n -> Characters] : n \in 1..MaxWord}
    /\ output = NoTree
    /\ tree = NoTree
    /\ value = NoValue
    /\ shape = <<>>
    /\ answers = NoAnswers
    /\ NoDisplay

\* identifier.parseString(text)
Lex ==
    /\ pc = "lex"
    /\ output = NoTree
    /\ output' = identifier_at(input)
    /\ UNCHANGED <<pc, input, tree, value, shape, answers>>
    /\ UNCHANGED display

NextLex == Lex

SpecLex == InitLex /\ [][NextLex]_vars

(***************************************************************************)
(* The source text of a tree: the __str__ methods of the nodes, as the     *)
(* lexemes of a line.                                                      *)
(***************************************************************************)
\* str of a sympy.Integer the tree holds as a literal: its decimal digits,
\* one of IntLexemes for the literals of the lines typed here
Integer_str(v) ==
    IF \E lex \in IntLexemes : process_int(lex).v = v
    THEN <<CHOOSE lex \in IntLexemes : process_int(lex).v = v>>
    ELSE <<"digits">>

\* the symbol of each SymbolOperator class
symbol(node) ==
    CASE node.k \in {"Plus", "PlusSign"} -> "+"
      [] node.k \in {"Minus", "MinusSign"} -> "-"
      [] node.k = "Times" -> MIDDOT
      [] node.k = "Divide" -> DIVSIGN
      [] node.k = "IntDivide" -> "//"
      [] node.k = "Exponent" -> "^"
      [] node.k = "Factorial" -> "!"

\* __str__ of Expression, Conversion, Equality, InfixSymbol, PostfixSymbol,
\* PrefixSymbol, Function, Constant (and Unit) and Matrix; a string that
\* stands where a node belongs is itself
RECURSIVE Operator_str(_)
Operator_str(node) ==
    LET cells(row) ==
            JoinTexts([c \in 1..Len(row) |-> Operator_str(row[c])], <<",">>)
    IN  CASE node.k = "Integer" -> Integer_str(node.v)
          [] node.k = "Raw" -> <<node.v>>
          [] node.k \in {"Constant", "Unit"} -> <<node.name>>
          [] node.k = "Expression" -> Operator_str(node.expr)
          [] node.k = "Conversion" ->
               Operator_str(node.expr) \o <<"to">> \o Operator_str(node.to_unit)
          [] node.k = "Equality" ->
               Operator_str(node.lhs) \o <<"=">> \o Operator_str(node.rhs)
          [] node.k \in {"Plus", "Minus", "Times", "Divide", "IntDivide", "Exponent"} ->
               <<"(">> \o Operator_str(node.lhs) \o <<symbol(node)>>
                 \o Operator_str(node.rhs) \o <<")">>
          [] node.k = "Factorial" ->
               <<"(">> \o Operator_str(node.lhs) \o <<symbol(node), ")">>
          [] node.k \in {"MinusSign", "PlusSign"} ->
               <<"(", symbol(node)>> \o Operator_str(node.rhs) \o <<")">>
          [] node.k = "Function" ->
               <<node.fn_s, "(">>
                 \o JoinTexts([j \in 1..Len(node.args) |-> Operator_str(node.args[j])],
                              <<",">>)
                 \o <<")">>
          [] node.k = "Matrix" ->
               <<"[">>
                 \o (IF node.rows = 0 THEN <<>>
                     ELSE JoinTexts([r \in 1..Len(node.data) |-> cells(node.data[r])],
                                    <<";">>))
                 \o <<"]">>

(***************************************************************************)
(* Properties of operator chains, checked on the sessions of Spec.         *)
(***************************************************************************)
\* the line has been handed to parse: tree is the outcome of parse(input)
Parsed == tree.st # "none"

\* the number lexemes and the operand lexemes of the lines looked at
Operands == {"2", "3"}
ExpOperands == {"2", "3", "x"}

\* the node of an operand lexeme
Leaf(lex) ==
    IF lex \in UnitNames THEN Unit(lex)
    ELSE IF lex \in ConstantNames THEN Constant(CanonicalConstant(lex))
    ELSE [k |-> "Integer", v |-> process_int(lex).v]

\* the node an infix operator spells
BinaryNode(op, l, r) ==
    CASE op = "+" -> Plus(l, r)
      [] op \in {"-", UMINUS} -> Minus(l, r)
      [] op \in {"*", MIDDOT} -> Times(l, r)
      [] op \in {"/", DIVSIGN} -> Divide(l, r)
      [] op = "//" -> IntDivide(l, r)
      [] op \in expop -> Exponent(l, r)

\* the node a prefix sign spells
SignNode(op, r) == IF op = "+" THEN PlusSign(r) ELSE MinusSign(r)

\* s is  x0 op1 x1 ... opn xn  with n >= 1
IsChain(s, operands, ops) ==
    /\ Len(s) >= 3
    /\ Len(s) % 2 = 1
    /\ \A i \in 1..Len(s) : IF i % 2 = 1 THEN s[i] \in operands ELSE s[i] \in ops

\* C1: a op1 b op2 c with op1, op2 among ^ and ** parses to
\* Exponent(a, Exponent(b, c)) for all operands a, b, c, and for numbers it
\* evaluates to a^(b^c), never to (a^b)^c.
C1_ExponentRightAssociative ==
    (Parsed /\ Len(input) = 5 /\ IsChain(input, ExpOperands, expop)) =>
        /\ tree.st = "ok"
        /\ tree.node = Expression(Exponent(Leaf(input[1]),
                                           Exponent(Leaf(input[3]), Leaf(input[5]))))
        /\ (pc = "evaluated" /\ {input[1], input[3], input[5]} \subseteq Operands) =>
              LET a == Leaf(input[1]).v
                  b == Leaf(input[3]).v
                  c == Leaf(input[5]).v
              IN  value = IF IntPow(b, c) <= 9 THEN Number(IntPow(a, IntPow(b, c))) ELSE Big

C1_Witness ==
    /\ pc = "evaluated"
    /\ input = <<"2", "^", "3", "**", "2">>
    /\ value = Number(512)

\* C2: n1 u1 op n2 u2 with an explicit *, / or // parses to
\* op(Times(n1, u1), Times(n2, u2)); a run of adjacent units after a number
\* folds left into nested Times nodes; n u / n u evaluates to 1.
RECURSIVE TimesRun(_, _)
TimesRun(s, n) == IF n = 1 THEN Leaf(s[1]) ELSE Times(TimesRun(s, n - 1), Leaf(s[n]))

C2_SignlessBindsTighter ==
    /\ (Parsed /\ Len(input) = 5 /\ {input[1], input[4]} \subseteq Operands
          /\ {input[2], input[5]} \subseteq UnitNames /\ input[3] \in {"*", "/", "//"}) =>
          /\ tree.st = "ok"
          /\ tree.node = Expression(BinaryNode(input[3],
                                               Times(Leaf(input[1]), Leaf(input[2])),
                                               Times(Leaf(input[4]), Leaf(input[5]))))
          /\ (pc = "evaluated" /\ input[3] = "/" /\ input[1] = input[4]
                /\ input[2] = input[5]) => value = Quantity(Number(1), NoUnits)
    /\ (Parsed /\ Len(input) >= 2 /\ input[1] \in Operands
          /\ \A i \in 2..Len(input) : input[i] \in UnitNames) =>
          /\ tree.st = "ok"
          /\ tree.node = Expression(TimesRun(input, Len(input)))

C2_Witness ==
    /\ pc = "evaluated"
    /\ input = <<"2", "cm", "/", "2", "cm">>
    /\ tree.node = Expression(Divide(Times(Leaf("2"), Unit("cm")), Times(Leaf("2"), Unit("cm"))))
    /\ value = Quantity(Number(1), NoUnits)

\* C3: a chain x0 op1 x1 ... opn xn of operators of one level (the additive
\* operators the grammar accepts, or the multiplicative ones) becomes the
\* strict left fold (((x0 op1 x1) op2 x2) ... opn xn), each operator as
\* the node it spells.
RECURSIVE LeftFold(_, _)
LeftFold(s, n) ==
    IF n = 1 THEN Leaf(s[1])
    ELSE BinaryNode(s[n - 1], LeftFold(s, n - 2), Leaf(s[n]))

C3_LeftFold ==
    (Parsed /\ (IsChain(input, {"1", "2"}, addop) \/ IsChain(input, {"1", "2"}, multop))) =>
        /\ tree.st = "ok"
        /\ tree.node = Expression(LeftFold(input, Len(input)))

\* C4: factorial binds tighter than exponent, exponent tighter than a
\* prefix sign, the sign tighter than signless multiplication, that tighter
\* than explicit multiplication and division, those tighter than addition
\* and subtraction; k factorial marks apply factorial k times.
Prec(op) == IF op \in expop THEN 3 ELSE IF op \in multop THEN 2 ELSE 1

RECURSIVE Factorials(_, _)
Factorials(x, k) == IF k = 0 THEN x ELSE Factorial(Factorials(x, k - 1))

C4_BindingOrder ==
    Parsed =>
    /\ (Len(input) = 5 /\ IsChain(input, Operands, {"+", "-"} \cup multop \cup expop)) =>
          LET a == Leaf(input[1])
              b == Leaf(input[3])
              c == Leaf(input[5])
          IN  /\ tree.st = "ok"
              /\ tree.node = Expression(
                     IF Prec(input[4]) > Prec(input[2])
                        \/ (input[2] \in expop /\ input[4] \in expop)
                     THEN BinaryNode(input[2], a, BinaryNode(input[4], b, c))
                     ELSE BinaryNode(input[4], BinaryNode(input[2], a, b), c))
    /\ (Len(input) = 4 /\ input[1] \in Operands /\ input[2] = "^"
          /\ input[3] \in Operands /\ input[4] = "!") =>
          /\ tree.st = "ok"
          /\ tree.node = Expression(Exponent(Leaf(input[1]), Factorial(Leaf(input[3]))))
    /\ (Len(input) = 4 /\ input[1] \in Operands /\ input[2] = "!"
          /\ input[3] = "^" /\ input[4] \in Operands) =>
          /\ tree.st = "ok"
          /\ tree.node = Expression(Exponent(Factorial(Leaf(input[1])), Leaf(input[4])))
    /\ (Len(input) = 3 /\ input[1] = "-" /\ input[2] \in Operands /\ input[3] = "!") =>
          /\ tree.st = "ok"
          /\ tree.node = Expression(MinusSign(Factorial(Leaf(input[2]))))
    /\ (Len(input) = 4 /\ input[1] = "-" /\ input[2] \in Operands /\ input[3] = "^"
          /\ input[4] \in Operands) =>
          /\ tree.st = "ok"
          /\ tree.node = Expression(MinusSign(Exponent(Leaf(input[2]), Leaf(input[4]))))
          /\ pc = "evaluated" =>
                value = Number(-IntPow(Leaf(input[2]).v, Leaf(input[4]).v))
    /\ (Len(input) = 4 /\ input[1] \in Operands /\ input[2] = "*" /\ input[3] = "-"
          /\ input[4] \in Operands) =>
          /\ tree.st = "ok"
          /\ tree.node = Expression(Times(Leaf(input[1]), MinusSign(Leaf(input[4]))))
    /\ (Len(input) = 5 /\ input[1] \in {"+", "-"} /\ input[2] \in Operands
          /\ input[3] \in UnitNames /\ input[4] \in expop /\ input[5] \in Operands) =>
          /\ tree.st = "ok"
          /\ tree.node = Expression(Times(SignNode(input[1], Leaf(input[2])),
                                          Exponent(Leaf(input[3]), Leaf(input[5]))))
    /\ (Len(input) >= 2 /\ input[1] \in Operands
          /\ \A i \in 2..Len(input) : input[i] = "!") =>
          /\ tree.st = "ok"
          /\ tree.node = Expression(Factorials(Leaf(input[1]), Len(input) - 1))
          /\ (pc = "evaluated" /\ input = <<"3", "!", "!">>) => value = Number(720)

C4_Witness ==
    /\ pc = "evaluated"
    /\ input = <<"-", "2", "^", "2">>
    /\ value = Number(-4)

\* C5: a chain of prefix signs +, - and U+2212 before an operand is
\* accepted, nests to the right with one sign node per sign, and evaluates
\* to the operand negated once per minus sign, U+2212 counting as a minus.
RECURSIVE NestSigns(_, _)
NestSigns(s, i) ==
    IF i = Len(s) THEN Leaf(s[i]) ELSE SignNode(s[i], NestSigns(s, i + 1))

Minuses(s) == Cardinality({i \in 1..Len(s) : s[i] \in {"-", UMINUS}})

C5_SignChain ==
    (Parsed /\ Len(input) >= 2 /\ input[Len(input)] \in Operands
       /\ \A i \in 1..(Len(input) - 1) : input[i] \in signop) =>
        /\ tree.st = "ok"
        /\ tree.node = Expression(NestSigns(input, 1))
        /\ pc \notin {"error", "crashed"}
        /\ pc = "evaluated" =>
              LET v == Leaf(input[Len(input)]).v
              IN  value = Number(IF Minuses(input) % 2 = 0 THEN v ELSE -v)

\* C6: in  base ^ s1 ... sn operand  the signs fold into the right operand,
\* Exponent(base, s1(...sn(operand))), a sign before the base applies to
\* the whole power, and a power in the exponent nests to the right.
RECURSIVE IsPower(_, _), PowerNode(_, _)
IsPower(s, i) ==
    IF i > Len(s) THEN FALSE
    ELSE IF s[i] \in signop THEN IsPower(s, i + 1)
    ELSE IF s[i] \in Operands
    THEN i = Len(s) \/ (i + 1 < Len(s) /\ s[i + 1] \in expop /\ IsPower(s, i + 2))
    ELSE FALSE

PowerNode(s, i) ==
    IF s[i] \in signop THEN SignNode(s[i], PowerNode(s, i + 1))
    ELSE IF i = Len(s) THEN Leaf(s[i])
    ELSE Exponent(Leaf(s[i]), PowerNode(s, i + 2))

C6_SignedExponent ==
    (Parsed /\ IsPower(input, 1) /\ (\E i \in 1..Len(input) : input[i] \in expop)) =>
        /\ tree.st = "ok"
        /\ tree.node = Expression(PowerNode(input, 1))
        /\ (pc = "evaluated" /\ input = <<"-", "3", "^", "-", "2">>) =>
              value = Rational(-1, 9)

(***************************************************************************)
(* Properties of roman numerals, checked on the sessions of SpecRoman.     *)
(***************************************************************************)
LetterValue(c) ==
    CASE c \in {"I", "i"} -> 1 [] c \in {"V", "v"} -> 5 [] c \in {"X", "x"} -> 10
      [] c \in {"L", "l"} -> 50 [] c \in {"C", "c"} -> 100 [] c \in {"D", "d"} -> 500
      [] c \in {"M", "m"} -> 1000

\* the integer a numeral denotes: the letters add up, a letter standing
\* before a larger one is subtracted
RECURSIVE Denote(_, _)
Denote(s, i) ==
    IF i > Len(s) THEN 0
    ELSE (IF i < Len(s) /\ LetterValue(s[i]) < LetterValue(s[i + 1])
          THEN -LetterValue(s[i]) ELSE LetterValue(s[i]))
         + Denote(s, i + 1)

\* C7: `0r` before a roman numeral, in either case, in canonical
\* subtractive or in additive form, evaluates to the integer the numeral
\* denotes; the numeral rendered for n in 1..4999 reads back as n.
C7_RomanLiteral ==
    /\ (Parsed /\ Len(input) >= 2 /\ input[1] = "0r") =>
          /\ tree.st = "ok"
          /\ tree.node = Expression([k |-> "Integer", v |-> Denote(Tail(input), 1)])
          /\ pc \in {"evaluated", "rendered"} => value = Number(Denote(Tail(input), 1))
    /\ (pc = "parsed" /\ output.st = "ok" /\ value.k = "Number" /\ value.n \in 1..4999) =>
          /\ input = <<"0r">> \o output.node
          /\ tree.st = "ok"
          /\ tree.node = Expression([k |-> "Integer", v |-> value.n])

C7_Witness ==
    /\ pc = "parsed"
    /\ value = Number(4999)
    /\ input = <<"0r", "M", "M", "M", "M", "C", "M", "X", "C", "I", "X">>
    /\ tree.node = Expression([k |-> "Integer", v |-> 4999])

\* the greedy decomposition of n >= 0 over the numeral table
GreedyTable ==
    << <<1000, <<"M">> >>, <<900, <<"C", "M">> >>, <<500, <<"D">> >>,
       <<400, <<"C", "D">> >>, <<100, <<"C">> >>, <<90, <<"X", "C">> >>,
       <<50, <<"L">> >>, <<40, <<"X", "L">> >>, <<10, <<"X">> >>,
       <<9, <<"I", "X">> >>, <<5, <<"V">> >>, <<4, <<"I", "V">> >>, <<1, <<"I">> >> >>

RECURSIVE Greedy(_, _)
Greedy(n, j) ==
    IF n = 0 THEN <<>>
    ELSE IF GreedyTable[j][1] <= n
    THEN GreedyTable[j][2] \o Greedy(n - GreedyTable[j][1], j)
    ELSE Greedy(n, j + 1)

\* C8: rendering succeeds for every integer in [-4999, 4999] with the
\* greedy decomposition, a minus sign first for a negative value, and
\* raises ValueError for every integer outside and every non-integral value.
C8_RomanRendering ==
    pc = "rendered" =>
        IF value.k \in {"Number", "Float", "PyFloat"} /\ value.d = 1
           /\ value.n \in (-4999)..4999
        THEN /\ output.st = "ok"
             /\ output.node = (IF value.n < 0 THEN <<"-">> ELSE <<>>)
                                  \o Greedy(Abs(value.n), 1)
        ELSE /\ output.st = "raise"
             /\ output.err = "ValueError"

(***************************************************************************)
(* Properties of prefixed literals, checked on the sessions of SpecBase.   *)
(***************************************************************************)
\* the value of a digit string by place: sum of digit * base^place
RECURSIVE PlaceValue(_, _, _)
PlaceValue(digits, base, j) ==
    IF j > Len(digits) THEN 0
    ELSE DigitValue(digits[j]) * IntPow(base, Len(digits) - j)
         + PlaceValue(digits, base, j + 1)

BaseOf(prefix) == IF prefix = "0x" THEN 16 ELSE IF prefix = "0o" THEN 8 ELSE 2

ValidDigits(digits, base) ==
    /\ digits # <<>>
    /\ \A j \in 1..Len(digits) : digits[j] \in DigitClass("0x") /\ DigitValue(digits[j]) < base

\* the literal node of the rational num / den in lowest terms
ExactNode(num, den) ==
    LET g == GCD(num, den)
    IN  IF den \div g = 1 THEN [k |-> "Integer", v |-> num \div g]
        ELSE [k |-> "Rational", p |-> num \div g, q |-> den \div g]

\* C9: a literal 0x / 0o / 0b with integer digits I and fractional digits F
\* is exactly int(I, b) + int(F, b) / b^len(F); without a fractional part
\* it is the integer int(I, b).
C9_BaseLiteral ==
    (Parsed /\ Len(input) >= 2 /\ input[1] \in {"0x", "0o", "0b"}) =>
        LET b == BaseOf(input[1])
            dots == {j \in 1..Len(input) : input[j] = "."}
        IN  /\ (dots = {} /\ ValidDigits(Tail(input), b)) =>
                  /\ tree.st = "ok"
                  /\ tree.node = Expression([k |-> "Integer",
                                             v |-> PlaceValue(Tail(input), b, 1)])
                  /\ pc = "evaluated" => value = Number(PlaceValue(Tail(input), b, 1))
            /\ \A d \in dots :
                  LET I == SubSeq(input, 2, d - 1)
                      F == SubSeq(input, d + 1, Len(input))
                      den == IntPow(b, Len(F))
                      num == PlaceValue(I, b, 1) * den + PlaceValue(F, b, 1)
                  IN  (ValidDigits(I, b) /\ ValidDigits(F, b)) =>
                          /\ tree.st = "ok"
                          /\ tree.node = Expression(ExactNode(num, den))
                          /\ pc = "evaluated" => value = Rational(num, den)

C9_Witness ==
    /\ pc = "evaluated"
    /\ input = <<"0x", "A", ".", "8">>
    /\ tree.node = Expression([k |-> "Rational", p |-> 21, q |-> 2])
    /\ value = Rational(21, 2)

(***************************************************************************)
(* Properties of matrix literals, checked on the sessions of Spec.         *)
(***************************************************************************)
\* s is  [ cell sep cell ... sep cell ]  with separators , and ;
IsMatrixLiteral(s) ==
    /\ Len(s) >= 3
    /\ Len(s) % 2 = 1
    /\ s[1] = "["
    /\ s[Len(s)] = "]"
    /\ \A i \in 2..(Len(s) - 1) :
          IF i % 2 = 0 THEN s[i] \in {"1", "2"} ELSE s[i] \in {",", ";"}

\* the row of the cell at position i, and the number of cells of row r
RowOfCell(s, i) == 1 + Cardinality({j \in 2..(i - 1) : s[j] = ";"})
CellsOfRow(s, r) ==
    Cardinality({i \in 2..(Len(s) - 1) : i % 2 = 0 /\ RowOfCell(s, i) = r})
Ragged(s) ==
    \E i \in 2..(Len(s) - 1) :
        i % 2 = 0 /\ CellsOfRow(s, RowOfCell(s, i)) # CellsOfRow(s, 1)

\* every Matrix node in a tree has `rows` rows of `cols` cells each
RECURSIVE Rectangular(_)
Rectangular(node) ==
    CASE node.k = "Matrix" ->
            /\ Len(node.data) = node.rows
            /\ \A r \in 1..node.rows :
                  /\ Len(node.data[r]) = node.cols
                  /\ \A c \in 1..node.cols : Rectangular(node.data[r][c])
      [] node.k = "Expression" -> Rectangular(node.expr)
      [] node.k \in {"Plus", "Minus", "Times", "Divide", "IntDivide", "Exponent"} ->
            Rectangular(node.lhs) /\ Rectangular(node.rhs)
      [] node.k = "Factorial" -> Rectangular(node.lhs)
      [] node.k \in {"MinusSign", "PlusSign"} -> Rectangular(node.rhs)
      [] OTHER -> TRUE

\* C10: a matrix literal with rows of unequal length raises
\* VariableLengthRowsError while the line is parsed; every Matrix node is
\* rectangular; evaluation never meets ragged rows.
C10_RaggedMatrix ==
    /\ (Parsed /\ IsMatrixLiteral(input) /\ Ragged(input)) =>
          /\ tree.st = "raise"
          /\ tree.err = "VariableLengthRowsError"
          /\ pc = "error"
          /\ value = NoValue
    /\ (Parsed /\ IsMatrixLiteral(input) /\ ~Ragged(input)) =>
          /\ tree.st = "ok"
          /\ tree.node.expr.k = "Matrix"
          /\ tree.node.expr.cols = CellsOfRow(input, 1)
    /\ tree.st = "ok" => Rectangular(tree.node)
    /\ value.k = "Error" => value.e \notin {"VariableLengthRowsError", "ShapeError"}

C10_Witness ==
    /\ pc = "error"
    /\ input = <<"[", "1", ",", "2", ";", "1", "]">>
    /\ tree.st = "raise"
    /\ tree.err = "VariableLengthRowsError"

\* C11: the empty matrix literal [] is accepted by the parser and yields a
\* Matrix node with 0 rows and 0 columns, and evaluating that node returns
\* an empty matrix without raising.
C11_EmptyMatrix ==
    /\ (Parsed /\ input = <<"[", "]">>) =>
          /\ tree.st = "ok"
          /\ tree.node = Expression(Matrix(0, 0, Nil))
          /\ pc \in {"parsed", "evaluated"}
          /\ evaluate(tree.node) = MatrixValue(<<>>)

(***************************************************************************)
(* Properties of function calls and names, checked on the sessions of      *)
(* Spec.                                                                   *)
(***************************************************************************)
\* s is the call  name ( 2 sep 2 ... sep 2 )  with n arguments
IsCall(s, n) ==
    /\ Len(s) = (IF n = 0 THEN 3 ELSE 2 * n + 2)
    /\ s[1] \in IdentifierLexemes
    /\ s[2] = "("
    /\ s[Len(s)] = ")"
    /\ \A i \in 3..(Len(s) - 1) :
          IF i % 2 = 1 THEN s[i] = "2" ELSE s[i] \in {",", ";"}

\* the declared arity of a registered name: the parameters that are not
\* optional, and all parameters
DeclaredMin(name) ==
    Cardinality({i \in DOMAIN functions(name).args : ~functions(name).args[i].optional})
DeclaredMax(name) == Cardinality(DOMAIN functions(name).args)

\* C12: a call of a registered name with n arguments is rejected while the
\* line is parsed, with WrongNumberOfArgumentsError carrying (name, n, min,
\* max), exactly when n < min or n > max, and no Function node is built
\* then; otherwise the Function node with the n arguments is built.
C12_Arity ==
    \A n \in 0..MaxArgs :
        (Parsed /\ IsCall(input, n) /\ input[1] \in FunctionNames) =>
            IF n < DeclaredMin(input[1]) \/ n > DeclaredMax(input[1])
            THEN /\ tree.st = "raise"
                 /\ tree.err = "WrongNumberOfArgumentsError"
                 /\ tree.args = <<input[1], n, DeclaredMin(input[1]),
                                  DeclaredMax(input[1])>>
                 /\ pc = "error"
            ELSE /\ tree.st = "ok"
                 /\ tree.node.expr.k = "Function"
                 /\ tree.node.expr.fn_s = functions(input[1]).canonical_name
                 /\ Len(tree.node.expr.args) = n

\* the names of a line from position i on that name no unit, and the first
\* of them
NotUnits(s, i) == {j \in i..Len(s) : identifier(s[j]) /\ s[j] \notin UnitNames}
FirstNotUnit(s, i) == s[CHOOSE j \in NotUnits(s, i) : \A o \in NotUnits(s, i) : j <= o]

\* s is  2 name  or  2 name * name  or  2 name ^ name  (names in an
\* expression), and s is  2 name to U  or  2 name to U op V  with the name
\* resolved and U, V names or numbers (a unit expression after `to`)
IsNames(s) ==
    /\ Len(s) \in {2, 4}
    /\ s[1] \in Operands
    /\ identifier(s[2])
    /\ Len(s) = 4 => (s[3] \in {"*", "^"} /\ identifier(s[4]))
IsConversion(s) ==
    /\ Len(s) \in {4, 6}
    /\ s[1] \in Operands
    /\ s[2] \in ConstantNames \cup UnitNames
    /\ s[3] = "to"
    /\ identifier(s[4]) \/ s[4] = "1"
    /\ Len(s) = 6 => \/ (s[5] \in {"*", "^"} /\ identifier(s[6]))
                      \/ (s[5] = "^" /\ s[6] = "2")

\* C13: a name is resolved while the line is parsed, and the error for an
\* unresolved name carries that name: in call position a name that is not
\* registered raises UnknownFunctionError; in an expression a name is
\* looked up as a constant, then as a unit, and raises UnknownConstantError
\* only if it is neither; in the unit expression after `to` a name that is
\* no unit raises UnknownUnitError.
C13_NameResolution ==
    /\ \A n \in 1..MaxArgs :
          (Parsed /\ IsCall(input, n) /\ input[1] \notin FunctionNames) =>
              /\ tree.st = "raise"
              /\ tree.err = "UnknownFunctionError"
              /\ tree.args = <<input[1]>>
    /\ (Parsed /\ IsNames(input)) =>
          LET unknown == {j \in 1..Len(input) :
                            /\ identifier(input[j])
                            /\ input[j] \notin ConstantNames \cup UnitNames}
          IN  IF unknown = {}
              THEN /\ tree.st = "ok"
                   /\ tree.node = Expression(
                         IF Len(input) = 2
                         THEN Times(Leaf(input[1]), Leaf(input[2]))
                         ELSE IF input[3] = "*"
                         THEN Times(Times(Leaf(input[1]), Leaf(input[2])), Leaf(input[4]))
                         ELSE Times(Leaf(input[1]),
                                    Exponent(Leaf(input[2]), Leaf(input[4]))))
              ELSE /\ tree.st = "raise"
                   /\ tree.err = "UnknownConstantError"
                   /\ tree.args = <<input[CHOOSE j \in unknown : \A o \in unknown : j <= o]>>
    /\ (Parsed /\ IsConversion(input)) =>
          IF NotUnits(input, 4) = {}
          THEN tree.st = "ok" /\ tree.node.k = "Conversion"
          ELSE /\ tree.st = "raise"
               /\ tree.err = "UnknownUnitError"
               /\ tree.args = <<FirstNotUnit(input, 4)>>

(***************************************************************************)
(* Properties of the evaluation of calls, conversions and equalities,      *)
(* checked on the sessions of Spec.                                        *)
(***************************************************************************)
\* the line was accepted and evaluate has returned or raised
Ran == tree.st = "ok" /\ pc \in {"evaluated", "error", "crashed"}

\* C14: Function.evaluate checks every evaluated argument against the mask
\* of its parameter before the implementation is called.  A unit-bearing
\* argument to a parameter that forbids units is passed as the bare
\* magnitude of its conversion to dimensionless, a DimensionalityError if
\* its unit is not dimensionless-compatible; a matrix (bare or the magnitude
\* of a quantity) to a parameter that forbids matrices, and a scalar to a
\* parameter that forbids scalars, raise ValueError naming the function; the
\* implementation is called exactly when no argument is rejected, with the
\* arguments so prepared.
C14_ArgumentMasks ==
    (Ran /\ tree.node.k = "Expression" /\ tree.node.expr.k = "Function") =>
        LET f == tree.node.expr
            holds(vals) ==
                LET strip(i) == IsQuantity(vals[i]) /\ ~f.argspec[i].unit
                    verdict(i) ==
                        IF strip(i) /\ Dimension(vals[i].units) # Dimension(NoUnits)
                        THEN Error("DimensionalityError")
                        ELSE IF IsMatrix(Mag(vals[i])) /\ ~f.argspec[i].matrix
                        THEN ErrorWith("ValueError", <<f.fn_s>>)
                        ELSE IF ~IsMatrix(Mag(vals[i])) /\ ~f.argspec[i].scalar
                        THEN ErrorWith("ValueError", <<f.fn_s>>)
                        ELSE IF strip(i)
                        THEN convert_to(vals[i], NoUnits).magnitude
                        ELSE vals[i]
                    settled(verdicts) ==
                        IF \E i \in 1..Len(vals) : verdicts[i].k = "Error"
                        THEN /\ value = verdicts[CHOOSE i \in 1..Len(vals) :
                                            /\ verdicts[i].k = "Error"
                                            /\ \A j \in 1..(i - 1) : verdicts[j].k # "Error"]
                             /\ pc = "error"
                        ELSE /\ value = Applied(f.fn, verdicts)
                             /\ \A i \in 1..Len(vals) : ~strip(i) \/ ~IsQuantity(value.args[i])
                             /\ pc = "evaluated"
                IN  (\A i \in 1..Len(vals) : vals[i].k # "Error") =>
                        settled([i \in 1..Len(vals) |-> verdict(i)])
        IN  holds([i \in 1..Len(f.args) |-> evaluate(f.args[i])])

\* C15: Conversion.evaluate returns a Quantity whose unit is the target
\* unit.  The magnitude of a left operand that carries a unit is multiplied
\* by what one source unit is in the target unit; a left operand without a
\* unit is first wrapped as dimensionless, so `2 to 1` is 2; a conversion
\* between units of different dimension is an error and no value.
C15_Conversion ==
    (Ran /\ tree.node.k = "Conversion") =>
        LET \* one of a unit vector in base units
            base(units) ==
                NumMul(NumMul(NumPow(Scale("m"), Number(units["m"])),
                              NumPow(Scale("cm"), Number(units["cm"]))),
                       NumMul(NumPow(Scale("km"), Number(units["km"])),
                              NumPow(Scale("h"), Number(units["h"]))))
            converted(from, target, expected) ==
                IF Dimension(from.units) = Dimension(target.units)
                THEN /\ IsQuantity(value)
                     /\ value.units = target.units
                     /\ (IsNumber(from.magnitude) /\ IsNumber(expected)) =>
                           value.magnitude = Float(expected.n, expected.d)
                     /\ pc = "evaluated"
                ELSE /\ value = Error("DimensionalityError")
                     /\ pc = "error"
            wrapped(from, target) ==
                converted(from, target,
                          NumMul(from.magnitude,
                                 NumDiv(base(from.units), base(UnitsOf(target)))))
            holds(left, target) ==
                (~Failed(left) /\ IsQuantity(target)) =>
                    wrapped(IF IsQuantity(left) THEN left ELSE Quantity(left, NoUnits),
                            target)
        IN  holds(evaluate(tree.node.expr), evaluate(tree.node.to_unit))

\* `2 cm / m to 1` has been converted to the dimensionless 0.02
C15_Witness ==
    /\ Ran /\ tree.node.k = "Conversion"
    /\ input = <<"2", "cm", "/", "m", "to", "1">>
    /\ value = Quantity(Float(1, 50), NoUnits)

\* an equality was evaluated
AnEquality == Ran /\ tree.node.k = "Equality"

\* C16: Equality.evaluate returns a boolean, the unsolved equality or a
\* Solutions object and nothing else.  Two numbers are decided directly; an
\* equality that Eq or simplification decides is a boolean; what is left is
\* handed to the solver, and the result is the unsolved equality when the
\* solver returns no solution or is not implemented for the equation, a
\* Solutions object holding the solutions when there is at least one.  No
\* Solutions object is empty.
C16_EqualityOutcomes ==
    AnEquality =>
        LET holds(lhs, rhs) ==
                (~Failed(lhs) /\ ~Failed(rhs)) =>
                    /\ pc = "evaluated"
                    /\ value.k \in {"Bool", "Eq", "Solutions"}
                    /\ (IsNumber(lhs) /\ IsNumber(rhs)) => value = Bool(lhs = rhs)
                    /\ (answers.eq # "undecided" \/ answers.simplify # "undecided") =>
                          value.k = "Bool"
                    /\ value.k # "Bool" =>
                          IF \/ answers.solve.raised = "NotImplementedError"
                             \/ answers.solve.solutions = <<>>
                          THEN value = Eq(lhs, rhs)
                          ELSE value = Solutions("x", answers.solve.solutions)
                    /\ value.k = "Solutions" => Len(value.solutions) >= 1
        IN  holds(evaluate(tree.node.lhs), evaluate(tree.node.rhs))

\* `2 x = x` was handed to the solver, which returned two solutions
C16_Witness ==
    /\ AnEquality
    /\ input = <<"2", "x", "=", "x">>
    /\ value.k = "Solutions" /\ Len(value.solutions) = MaxSolutions

\* C17: an equality whose sides carry units of different dimension is
\* False and raises nothing; sides with units of one dimension are compared
\* after conversion: 1 cm = 1 cm and 1 m = 100 cm are True, 1 cm = 2 cm and
\* 1 cm = 1 m are False.
C17_EqualityWithUnits ==
    AnEquality =>
        LET \* one of a unit vector in base units
            base(units) ==
                NumMul(NumMul(NumPow(Scale("m"), Number(units["m"])),
                              NumPow(Scale("cm"), Number(units["cm"]))),
                       NumMul(NumPow(Scale("km"), Number(units["km"])),
                              NumPow(Scale("h"), Number(units["h"]))))
            compared(lhs, rhs, l, r) ==
                /\ pc = "evaluated"
                /\ value = Bool(Dimension(lhs.units) = Dimension(rhs.units) /\ l = r)
            holds(lhs, rhs) ==
                (/\ IsQuantity(lhs) /\ IsQuantity(rhs)
                 /\ IsNumber(Mag(lhs)) /\ IsNumber(Mag(rhs))) =>
                    compared(lhs, rhs, NumMul(lhs.magnitude, base(lhs.units)),
                             NumMul(rhs.magnitude, base(rhs.units)))
        IN  holds(evaluate(tree.node.lhs), evaluate(tree.node.rhs))

\* `1 m = 100 cm` is True, after conversion
C17_Witness ==
    /\ AnEquality
    /\ input = <<"1", "m", "=", "100", "cm">>
    /\ value = Bool(TRUE)

\* C18: a Quantity whose magnitude is zero compares equal to the number
\* zero whatever its unit, be the zero a plain number or a sympy zero:
\* Quantity.__eq__ answers True, and the equality of the quantity with 0
\* evaluates to True.
C18_ZeroQuantity ==
    AnEquality =>
        LET holds(lhs, rhs) ==
                (IsQuantity(lhs) /\ Mag(lhs) = Number(0) /\ rhs = Number(0)) =>
                    /\ \A zero \in {Number(0), Float(0, 1), PyFloat(0, 1)} :
                           Quantity_eq(lhs, zero, answers) = Bool(TRUE)
                    /\ value = Bool(TRUE)
                    /\ pc = "evaluated"
        IN  holds(evaluate(tree.node.lhs), evaluate(tree.node.rhs))

\* `0 h = 0` is True
C18_Witness ==
    /\ AnEquality
    /\ input = <<"0", "h", "=", "0">>
    /\ value = Bool(TRUE)

(***************************************************************************)
(* Properties of the arithmetic of quantities, checked on the sessions of  *)
(* Spec.                                                                   *)
(***************************************************************************)
\* the line is one infix operation, and it was evaluated
Infix(kinds) == Ran /\ tree.node.k = "Expression" /\ tree.node.expr.k \in kinds

\* C19: a sum or difference needs operands of one dimension.  Two
\* quantities of compatible units combine into one Quantity; two quantities
\* of different dimensions, and a dimensioned quantity with a plain number,
\* the number 0 included, raise an error in either order of the operands
\* and produce no value.
C19_AddSub ==
    Infix({"Plus", "Minus"}) =>
        LET dimensioned(q) == IsQuantity(q) /\ Dimension(q.units) # Dimension(NoUnits)
            holds(a, b) ==
                /\ (IsQuantity(a) /\ IsQuantity(b)) =>
                      IF Dimension(a.units) = Dimension(b.units)
                      THEN IsQuantity(value) /\ value.units = a.units /\ pc = "evaluated"
                      ELSE value = Error("DimensionalityError") /\ pc = "error"
                /\ ((dimensioned(a) /\ IsNumber(b)) \/ (IsNumber(a) /\ dimensioned(b))) =>
                      value = Error("DimensionalityError") /\ pc = "error"
        IN  holds(evaluate(tree.node.expr.lhs), evaluate(tree.node.expr.rhs))

\* `0 + 2 cm` has raised the error, and so has `2 cm - 0`
C19_Witness ==
    /\ Infix({"Plus", "Minus"})
    /\ input \in {<<"0", "+", "2", "cm">>, <<"2", "cm", "-", "0">>}
    /\ value = Error("DimensionalityError")

\* C20: a Quantity raised to an exponent.  For an exponent that is a real
\* number the result is a Quantity whose unit is the unit of the base raised
\* to that power; for an exponent that is symbolic or carries a unit the
\* power stays an unevaluated symbolic expression and no error is raised.
C20_QuantityPower ==
    Infix({"Exponent"}) =>
        LET holds(a, e) ==
                IsQuantity(a) =>
                    /\ IsNumber(e) =>
                          /\ IF \A n \in UnitNames : (a.units[n] * e.n) % e.d = 0
                             THEN /\ IsQuantity(value)
                                  /\ value.units =
                                       [n \in UnitNames |-> (a.units[n] * e.n) \div e.d]
                             ELSE value = FractionalQuantity(a, e)
                          /\ pc = "evaluated"
                    /\ (e = Symbolic \/ IsQuantity(e)) =>
                          /\ value = Symbolic
                          /\ pc = "evaluated"
        IN  holds(evaluate(tree.node.expr.lhs), evaluate(tree.node.expr.rhs))

(***************************************************************************)
(* Properties of the Quantity interface, checked on SpecQuantity.          *)
(***************************************************************************)
\* C21: units do not nest: after any sequence of +, -, *, /, ** (in either
\* operand order), abs, evalf, replace_magnitude and convert_to applied to
\* Quantities and plain numbers, a resulting Quantity has a magnitude that
\* is not itself a Quantity
C21_UnitsDoNotNest ==
    (pc = "quantity" /\ IsQuantity(value)) => ~IsQuantity(value.magnitude)

(***************************************************************************)
(* Properties of rendering, checked on SpecResult: one Result shown       *)
(* several times under the same output controls.                           *)
(***************************************************************************)
\* C22: rendering is repeatable: every later call of the formatter on the
\* same Result under the same controls shows what the first call showed,
\* also in exact mode where the first call fills the cache of simplified
\* expressions and the later ones read it; and no call changes the raw
\* result
C22_RenderingRepeatable ==
    [][/\ value' = value
       /\ \A i \in 1..Len(shown') : shown'[i] = shown'[1]]_vars

\* the second call read from the cache a simplified expression that is not
\* the raw result, and showed a text
C22_Witness ==
    /\ pc = "result"
    /\ Len(shown) = 2
    /\ controls.mode = "try_exact"
    /\ \E p \in simplified : p[1] = value /\ p[2] # value
    /\ shown[2].k = "Shown"
    /\ shown[2].style # "color: red;"

\* C23: a failure inside formatting never leaves the top-level render
\* call: whatever the value and the controls, every call of update_output
\* puts a text in the output field, the rendering or an error text
C23_FormattingFailuresCaught ==
    pc = "result" => \A i \in 1..Len(shown) : shown[i].k = "Shown"

\* the expressions of a raw result that are printed one by one
Expressions(raw_result) ==
    CASE raw_result.k = "Bool" -> {}
      [] raw_result.k = "Solutions" ->
           {raw_result.solutions[j] : j \in 1..Len(raw_result.solutions)}
      [] raw_result.k = "Eq" -> {raw_result.lhs, raw_result.rhs}
      [] OTHER -> {raw_result}

\* the expression the printer was given for an expression of the result
\* that has been shown under the controls
PrintedFor(raw, s, cache) ==
    IF raw.k \in {"Number", "Float"} THEN {raw}
    ELSE IF s.mode = "to_float"
    THEN {IF IsQuantity(raw) THEN Quantity_evalf(raw) ELSE evalf(raw)}
    ELSE {p[2] : p \in {q \in cache : q[1] = raw}}
PrintedTrees ==
    IF pc = "result" /\ Len(shown) > 0
    THEN UNION {PrintedFor(raw, controls, simplified) : raw \in Expressions(value)}
    ELSE {}

\* the subexpressions of a printed expression, each with the operation
\* around it and the number of exponents it stands in
RECURSIVE Occurrences(_, _, _)
Occurrences(ex, depth, around) ==
    LET under(args, op, d) ==
            UNION {Occurrences(args[j], d, op) : j \in 1..Len(args)}
    IN  {<<ex, depth, around>>}
        \cup CASE ex.k = "Add" -> under(ex.args, "addition", depth)
               [] ex.k = "Mul" -> under(ex.args, "multiplication", depth)
               [] ex.k = "Applied" -> under(ex.args, "function_call", depth)
               [] ex.k = "Pow" ->
                    Occurrences(ex.args[1], depth, "exp_base")
                    \cup Occurrences(ex.args[2], depth + 1, "exp_exp")
               [] ex.k = "Quantity" /\ controls.units = "none" ->
                    IF ex.units = NoUnits
                    THEN Occurrences(ex.magnitude, depth, around)
                    ELSE Occurrences(ex.magnitude, depth, "multiplication")
               [] OTHER -> {}
PrintedOccurrences == UNION {Occurrences(t, 0, "none") : t \in PrintedTrees}

\* a text that is one pair of parentheses around the rest
RECURSIVE Open(_, _)
Open(text, j) ==
    IF j = 0 THEN 0
    ELSE Open(text, j - 1) + (IF text[j] = "(" THEN 1
                              ELSE IF text[j] = ")" THEN -1 ELSE 0)
Wrapped(text) ==
    /\ Len(text) >= 2
    /\ text[1] = "("
    /\ text[Len(text)] = ")"
    /\ \A j \in 1..(Len(text) - 1) : Open(text, j) > 0

\* C26: a sum is printed in parentheses exactly when the operation around
\* it is a multiplication or it is the base of a power, or when it is an
\* exponent inside an exponent; at the top, as a summand, as an argument
\* of a function and as an exponent at the first level it is printed
\* without, whatever its summands are
C26_SumParentheses ==
    \A occ \in PrintedOccurrences :
       occ[1].k = "Add" =>
          \A r \in {printer(occ[1], Context(occ[2], occ[3]), controls)} :
             r.st = "ok" =>
                (Wrapped(r.node)
                   <=> \/ occ[3] \in {"multiplication", "exp_base"}
                       \/ occ[3] = "exp_exp" /\ occ[2] > 1)

\* a sum has been printed as the exponent of an exponent, in parentheses
C26_Witness ==
    \E occ \in PrintedOccurrences :
       /\ occ[1].k = "Add"
       /\ occ[3] = "exp_exp"
       /\ occ[2] = 2
       /\ shown[1].k = "Shown"
       /\ Wrapped(printer(occ[1], Context(occ[2], occ[3]), controls).node)

\* a numeric literal below zero: an integer, a rational, a float or
\* negative infinity
NegativeLiteral(ex) ==
    \/ ex.k \in {"Number", "Float"} /\ ex.n < 0
    \/ ex = Atom("-oo")

\* C27: a negative numeric literal printed as the base of a power is in
\* parentheses, whatever its kind (integer, rational with or without a
\* glyph of its own, float, negative infinity) and in exact as in
\* approximate mode
C27_NegativeBaseParentheses ==
    \A occ \in PrintedOccurrences :
       (NegativeLiteral(occ[1]) /\ occ[3] = "exp_base") =>
          \A r \in {printer(occ[1], Context(occ[2], occ[3]), controls)} :
             r.st = "ok" => Wrapped(r.node)

\* how many <sup> are open after the first j pieces of a text
RECURSIVE SupDepth(_, _)
SupDepth(text, j) ==
    IF j = 0 THEN 0
    ELSE SupDepth(text, j - 1)
           + (IF text[j] = "<sup>" THEN 1 ELSE IF text[j] = "</sup>" THEN -1 ELSE 0)

\* C28: no text that is shown has superscript markup inside superscript
\* markup: whatever stands in an exponent (a power, a fraction, a float
\* with an exponent part, at any depth of powers, sums, products and
\* function calls) is printed inline
C28_NoNestedSup ==
    pc = "result" =>
       \A i \in 1..Len(shown) :
          shown[i].k = "Shown" =>
             \A j \in 1..Len(shown[i].text) : SupDepth(shown[i].text, j) <= 1

\* the value of a digit character, 16 for a character that is no digit
NumeralDigit(c) ==
    IF \E v \in 1..16 : hex_lookup[v] = c \/ lower_digits[v] = c
    THEN (CHOOSE v \in 1..16 : hex_lookup[v] = c \/ lower_digits[v] = c) - 1
    ELSE 16

\* the pieces of a shown numeral after its sign and prefix, and the
\* number its digits spell when the point is left out
Unsigned(text) == IF text # <<>> /\ Head(text) = UMINUS THEN Tail(text) ELSE text
RECURSIVE Spelled(_, _)
Spelled(chars, b) ==
    IF chars = <<>> THEN 0
    ELSE Spelled(SubSeq(chars, 1, Len(chars) - 1), b) * b + NumeralDigit(chars[Len(chars)])
RECURSIVE Power(_, _)
Power(b, e) == IF e = 0 THEN 1 ELSE b * Power(b, e - 1)

\* a numeral of the base with at most `digits` digits after the point that
\* is the number n / d cut after `digits` digits, the last one raised by
\* one iff the first digit dropped is at least ceil(b / 2), and n / d
\* itself where its expansion ends within `digits` digits
RightNumeral(text, n, d, base, digits) ==
    LET b == NumeralSystem(base)
        chars == Tail(Unsigned(text))
        before == Before(chars, ".")
        after == After(chars, ".")
        scaled == (n * Power(b, digits)) \div d
        dropped == ((n * Power(b, digits + 1)) \div d) % b
    IN  /\ Unsigned(text) # <<>>
        /\ Head(Unsigned(text)) = base_conv(base, 0)[1]
        /\ before # <<>>
        /\ Len(after) <= digits
        /\ \A j \in 1..Len(before) : NumeralDigit(before[j]) < b
        /\ \A j \in 1..Len(after) : NumeralDigit(after[j]) < b
        /\ Spelled(before \o after, b) * Power(b, digits - Len(after))
             = scaled + (IF (n * Power(b, digits)) % d # 0 /\ dropped >= (b + 1) \div 2
                         THEN 1 ELSE 0)

\* C29: a number that is no integer, shown in base 2, 8 or 16 with
\* `digits` digits, is a well-formed numeral of the base: at most `digits`
\* digits after the point, each of them in 0..base-1, the last one kept
\* rounded up iff the first one dropped is at least ceil(base / 2), and
\* the exact expansion where it ends within `digits` digits
C29_OtherBaseNumeral ==
    (/\ pc = "result"
     /\ Len(shown) > 0
     /\ value.k \in {"Number", "Float"}
     /\ value.n % value.d # 0
     /\ value.k = "Number" => controls.mode = "to_float"
     /\ controls.numeral_system \in {"binary", "octal", "hexadecimal"})
    => /\ shown[1].k = "Shown"
       /\ RightNumeral(shown[1].text, Abs(value.n), value.d,
                       controls.numeral_system, controls.digits)

(***************************************************************************)
(* Properties of the identifier, checked on SpecLex.                       *)
(***************************************************************************)
\* C25: a text that begins with a letter is lexed as an identifier, the
\* letter and all letters, digits and underscores after it, unless that
\* word is exactly the reserved word `to`; a word that only begins with
\* "to", such as `ton` or `torr`, is an identifier
C25_Identifier ==
    (pc = "lex" /\ output # NoTree /\ Head(input) \in Letters) =>
       output = IF WordRun(input) = <<"t", "o">> THEN Fail
                ELSE Ok(WordRun(input), Len(WordRun(input)))

(***************************************************************************)
(* The operator alphabet of grammar and node builders, checked on Spec.    *)
(***************************************************************************)
\* a node that holds a token string where an operand belongs, at any depth
RECURSIVE HoldsRaw(_)
HoldsRaw(node) ==
    CASE node.k = "Raw" -> TRUE
      [] node.k = "Expression" -> HoldsRaw(node.expr)
      [] node.k = "Conversion" -> HoldsRaw(node.expr) \/ HoldsRaw(node.to_unit)
      [] node.k \in {"Equality", "Plus", "Minus", "Times", "Divide", "IntDivide",
                     "Exponent"} -> HoldsRaw(node.lhs) \/ HoldsRaw(node.rhs)
      [] node.k = "Factorial" -> HoldsRaw(node.lhs)
      [] node.k \in {"MinusSign", "PlusSign"} -> HoldsRaw(node.rhs)
      [] node.k = "Function" -> \E j \in 1..Len(node.args) : HoldsRaw(node.args[j])
      [] node.k = "Matrix" /\ node.rows > 0 ->
           \E r \in 1..Len(node.data) :
              \E c \in 1..Len(node.data[r]) : HoldsRaw(node.data[r][c])
      [] OTHER -> FALSE

\* C30: grammar and node builders agree on the operators: every token
\* addop or multop matched in a chain is taken by InfixLeftSymbol.process
\* as the operator it spells and every token signop matched is known as a
\* sign to PrefixSymbol.process and to the loop of Exponent.process, so no
\* builder fails on a sign and no node of an accepted line holds an
\* operator string as an operand
C30_OperatorAlphabet ==
    Parsed =>
       /\ tree.st = "ok" => ~HoldsRaw(tree.node)
       /\ tree.err # "NameError"

(***************************************************************************)
(* The source text of a tree read back, checked on the sessions of Spec.   *)
(***************************************************************************)
\* C24: the text str(t) of the tree t of a line that has been evaluated is
\* accepted by parse, and the tree read from it evaluates to the value of
\* t (an equation under the same answers of sympy)
C24_SourceRoundTrip ==
    (pc = "evaluated" /\ tree.st = "ok") =>
       \A r \in {parse(Operator_str(tree.node))} :
          /\ r.st = "ok"
          /\ value = IF r.node.k = "Equality" THEN Equality_evaluate(r.node, answers)
                     ELSE evaluate(r.node)

====
